---- MODULE Spec2Model ----
(***************************************************************************)
(* Verification model of the sweetline highlighting core                   *)
(* (src/native/sweetline/src/core/highlight.cpp): the line tokenizer, the  *)
(* stateless text analyzer, the full-document pass and the incremental     *)
(* document analyzer.                                                      *)
(*                                                                         *)
(* A text is a sequence of characters.  The character "w" stands for a     *)
(* two-byte UTF-8 character, every other character is one byte wide, so    *)
(* that character positions and byte offsets differ.                       *)
(***************************************************************************)
EXTENDS Integers, Sequences, FiniteSets, TLC

VARIABLES
  gid,         \* Spec: index of the analyzer's grammar (m_rule_)
  show_index,  \* Spec: m_config_.show_index
  doc,         \* Spec: m_document_, a sequence of DocumentLine
  S,           \* Spec: m_line_syntax_states_
  hl,          \* Spec: m_highlight_->lines
  analyzed,    \* Spec: analyzeHighlight() has run
  fault,       \* Spec: an access outside S or lines happened
  last,        \* Spec: the last call and what it did
  ln,          \* SpecLine: the frame of one analyzeLine call
  tx,          \* SpecText: the frame of one analyzeText call
  ob,          \* SpecEdit: what one analyzeIncremental call was given and left
  eng          \* SpecEngine: the HighlightEngine's registry and analyzer map

vars == <<gid, show_index, doc, S, hl, analyzed, fault, last, ln, tx, ob, eng>>

-----------------------------------------------------------------------------
(* Bounds of the model *)

\* most lines a document holds under Spec
MaxLines == 3
\* how far past the end of the document an end_index reaches
MaxOver == 2
\* most lines a document holds under SpecCalls
CallLines == 2
\* most lines a document holds under SpecIndex
IndexLines == 4
\* most characters of a line given to analyzeLine alone
MaxTextLen == 4
\* most characters (line breaks included) of a text given to analyzeText
MaxInputLen == 4

Chars == {"a", "w"}

kDefaultStateId == 0
\* TokenSpan::goto_state of a span whose goto_state is never assigned
kNoGoto == -1
\* a null SharedPtr
nullptr == 0

Min(a, b) == IF a < b THEN a ELSE b

RECURSIVE SeqsUpTo(_, _)
SeqsUpTo(A, n) ==
  IF n = 0 THEN {<<>>}
  ELSE LET R == SeqsUpTo(A, n - 1)
       IN R \cup {Append(s, c) : s \in {r \in R : Len(r) = n - 1}, c \in A}

-----------------------------------------------------------------------------
(* Utf8Util *)

charWidth(c) == IF c = "w" THEN 2 ELSE 1

RECURSIVE byteLength(_)
byteLength(text) ==
  IF Len(text) = 0 THEN 0 ELSE charWidth(Head(text)) + byteLength(Tail(text))

countChars(text) == Len(text)

charPosToBytePos(text, char_pos) == byteLength(SubSeq(text, 1, Min(char_pos, Len(text))))

RECURSIVE charsWithin(_, _, _)
charsWithin(text, k, bytes_left) ==
  IF k > Len(text) \/ charWidth(text[k]) > bytes_left THEN 0
  ELSE 1 + charsWithin(text, k + 1, bytes_left - charWidth(text[k]))

bytePosToCharPos(text, byte_pos) == charsWithin(text, 1, byte_pos)

utf8Substr(text, start, length) == SubSeq(text, start + 1, Min(start + length, Len(text)))

-----------------------------------------------------------------------------
(* The compiled grammar.  A token rule's alternative of the combined regex  *)
(* is a pattern: a literal (the empty literal matches with zero width) or   *)
(* one or more characters of a class.  groups[g] places capture group g     *)
(* inside the match, in characters from the match start; b = -1 is a group  *)
(* that did not take part in the match.                                     *)

Lit(s) == [kind |-> "lit", str |-> s, cls |-> {}]
Plus(c) == [kind |-> "plus", str |-> <<>>, cls |-> c]

Grp(b, e) == [b |-> b, e |-> e]
NoGrp == [b |-> -1, e |-> -1]

TokenRule(pat, groups, offset, styles, goto, sub) ==
  [pat |-> pat, groups |-> groups, group_offset_start |-> offset,
   group_count |-> Len(groups), group_styles |-> styles,
   goto_state |-> goto, sub_state_rule |-> sub]

StateRule(rules, les) == [token_rules |-> rules, line_end_state |-> les]

getGroupStyleId(token_rule, group) == token_rule.group_styles[group + 1]

\* block comment: "a" opens state 1, "w" closes it
GBlock ==
  (0 :> StateRule(<<TokenRule(Lit(<<"a">>), <<>>, 1, <<5>>, 1, <<>>)>>, -1)) @@
  (1 :> StateRule(<<TokenRule(Lit(<<"w">>), <<>>, 1, <<5>>, 0, <<>>)>>, 1))

\* line comment: "w" opens state 1, which ends with the line
GLine ==
  (0 :> StateRule(<<TokenRule(Lit(<<"w">>), <<>>, 1, <<6>>, 1, <<>>),
                    TokenRule(Lit(<<"a">>), <<>>, 2, <<7>>, -1, <<>>)>>, -1)) @@
  (1 :> StateRule(<<TokenRule(Plus({"a", "w"}), <<>>, 1, <<6>>, -1, <<>>)>>, 0))

\* capture groups: nested groups, an unmatched group, a zero-width alternative
GGroups ==
  (0 :> StateRule(<<TokenRule(Lit(<<"a", "w">>), <<Grp(0, 2), Grp(1, 2)>>, 1, <<1, 2, 3>>, -1, <<>>),
                    TokenRule(Lit(<<"w">>), <<NoGrp, Grp(0, 1)>>, 4, <<4, 8, 9>>, -1, <<>>),
                    TokenRule(Lit(<<"a", "a">>), <<>>, 7, <<4>>, -1, <<>>),
                    TokenRule(Lit(<<>>), <<>>, 8, <<0>>, -1, <<>>)>>, -1))

\* sub-grammars: a run of characters tokenized again by a sub state rule with
\* a plain rule, a rule with a capture group and a rule with its own sub rule
SubInner == StateRule(<<TokenRule(Lit(<<"w">>), <<>>, 1, <<13>>, -1, <<>>)>>, -1)

SubOuter ==
  StateRule(<<TokenRule(Lit(<<"a", "w">>), <<Grp(1, 2)>>, 1, <<10, 11>>, -1, <<>>),
              TokenRule(Lit(<<"w", "w">>), <<>>, 3, <<12>>, -1, <<SubInner>>),
              TokenRule(Lit(<<"w">>), <<>>, 4, <<2>>, -1, <<>>)>>, -1)

GSub ==
  (0 :> StateRule(<<TokenRule(Plus({"a", "w"}), <<>>, 1, <<1>>, -1, <<SubOuter>>)>>, -1)) @@
  (1 :> StateRule(<<TokenRule(Plus({"w"}), <<>>, 1, <<3>>, -1, <<SubInner>>)>>, -1))

\* a rule whose goto_state names a state the grammar does not have
GUnknown ==
  (0 :> StateRule(<<TokenRule(Lit(<<"a">>), <<>>, 1, <<1>>, 9, <<>>)>>, -1))

\* a rule that has a sub state rule and changes the state
GSubGoto ==
  (0 :> StateRule(<<TokenRule(Plus({"a", "w"}), <<>>, 1, <<1>>, 1, <<SubInner>>)>>, -1)) @@
  (1 :> StateRule(<<TokenRule(Lit(<<"a">>), <<>>, 1, <<2>>, 0, <<>>)>>, -1))

\* every state has an alternative that matches the empty string
GZero ==
  (0 :> StateRule(<<TokenRule(Lit(<<"w">>), <<>>, 1, <<1>>, 1, <<>>),
                    TokenRule(Lit(<<>>), <<>>, 2, <<2>>, -1, <<>>)>>, -1)) @@
  (1 :> StateRule(<<TokenRule(Lit(<<"a">>), <<>>, 1, <<3>>, 0, <<>>),
                    TokenRule(Lit(<<>>), <<>>, 2, <<2>>, -1, <<>>)>>, -1))

\* a sub state rule with an alternative that matches the empty string
SubZero ==
  StateRule(<<TokenRule(Lit(<<"w">>), <<>>, 1, <<14>>, -1, <<>>),
              TokenRule(Lit(<<>>), <<>>, 2, <<0>>, -1, <<>>)>>, -1)

GSubZero ==
  (0 :> StateRule(<<TokenRule(Plus({"a", "w"}), <<>>, 1, <<1>>, -1, <<SubZero>>)>>, -1))

Grammars == <<GBlock, GLine, GGroups, GSub, GUnknown, GSubGoto, GZero, GSubZero>>

containsRule(m_rule, state) == state \in DOMAIN m_rule

getStateRule(m_rule, state) ==
  IF state \in DOMAIN m_rule THEN m_rule[state] ELSE StateRule(<<>>, -1)

-----------------------------------------------------------------------------
(* The regex search *)

RECURSIVE runLength(_, _, _)
runLength(text, p, cls) ==
  IF p < Len(text) /\ text[p + 1] \in cls THEN 1 + runLength(text, p + 1, cls) ELSE 0

\* the length in characters of pattern pat's match at character p, -1 if none
matchAlternative(pat, text, p) ==
  IF pat.kind = "lit"
  THEN IF p + Len(pat.str) <= Len(text) /\ SubSeq(text, p + 1, p + Len(pat.str)) = pat.str
       THEN Len(pat.str) ELSE -1
  ELSE LET n == runLength(text, p, pat.cls) IN IF n >= 1 THEN n ELSE -1

groupTotal(state_rule) ==
  LET R == state_rule.token_rules
  IN IF Len(R) = 0 THEN 0 ELSE R[Len(R)].group_offset_start + R[Len(R)].group_count

ONIG_MISMATCH == -1

\* the first alternative, in declared order from i on, that matches at character p; 0 if none
RECURSIVE firstAlternative(_, _, _, _)
firstAlternative(R, text, p, i) ==
  IF i > Len(R) THEN 0
  ELSE IF matchAlternative(R[i].pat, text, p) >= 0 THEN i
  ELSE firstAlternative(R, text, p, i + 1)

\* the leftmost character position from p on where an alternative matches; -1 if none
RECURSIVE firstPosition(_, _, _)
firstPosition(R, text, p) ==
  IF p > Len(text) THEN -1
  ELSE IF firstAlternative(R, text, p, 1) > 0 THEN p
  ELSE firstPosition(R, text, p + 1)

\* the OnigRegion of alternative i (n characters long) matching at character p:
\* beg/end of every group in bytes, -1 for a group that took no part
regionAt(R, text, p, i, n, total) ==
  LET off == R[i].group_offset_start
      inRule(g) == g > off /\ g <= off + R[i].group_count /\ R[i].groups[g - off].b >= 0
  IN [pos |-> charPosToBytePos(text, p),
      beg |-> [g \in 0..total |->
                 IF g = 0 \/ g = off THEN charPosToBytePos(text, p)
                 ELSE IF inRule(g) THEN charPosToBytePos(text, p + R[i].groups[g - off].b)
                 ELSE -1],
      end |-> [g \in 0..total |->
                 IF g = 0 \/ g = off THEN charPosToBytePos(text, p + n)
                 ELSE IF inRule(g) THEN charPosToBytePos(text, p + R[i].groups[g - off].e)
                 ELSE -1]]

\* the OnigRegion of the first alternative matching at character p
regionOfAlternative(R, text, p, i, total) ==
  regionAt(R, text, p, i, matchAlternative(R[i].pat, text, p), total)

\* the result of a search whose leftmost match is at character p (-1: none)
regionOf(R, text, p, total) ==
  IF p < 0
  THEN [pos |-> ONIG_MISMATCH, beg |-> [g \in 0..total |-> -1], end |-> [g \in 0..total |-> -1]]
  ELSE regionOfAlternative(R, text, p, firstAlternative(R, text, p, 1), total)

\* onig_search over the combined regex from start_byte to the end of text:
\* the leftmost position where an alternative matches, the first such
\* alternative in declared order
onig_search(state_rule, text, start_byte) ==
  regionOf(state_rule.token_rules, text,
           firstPosition(state_rule.token_rules, text, bytePosToCharPos(text, start_byte)),
           groupTotal(state_rule))

-----------------------------------------------------------------------------
(* TokenSpan, LineHighlight *)

Position(line, column, index) == [line |-> line, column |-> column, index |-> index]

\* a default-constructed TokenSpan
TokenSpan ==
  [range |-> [start |-> Position(0, 0, 0), end |-> Position(0, 0, 0)],
   style_id |-> 0, state |-> 0, goto_state |-> kNoGoto, matched_text |-> <<>>]

\* TextPosition / TextRange equality
RangeEq(r1, r2) == r1 = r2

SpanEq_NoGoto(a, b) ==
  /\ RangeEq(a.range, b.range)
  /\ a.style_id = b.style_id
  /\ a.state = b.state

\* TokenSpan::operator==
SpanEq(a, b) ==
  /\ RangeEq(a.range, b.range)
  /\ a.style_id = b.style_id
  /\ a.state = b.state
  /\ a.goto_state = b.goto_state

\* LineHighlight::operator==
LineHighlightEq(x, y) ==
  /\ Len(x) = Len(y)
  /\ \A i \in 1..Len(x) : SpanEq(x[i], y[i])

pushOrMergeSpan_NoMerge(spans, span) == Append(spans, span)

pushOrMergeSpan_ReplaceLast(spans, span) ==
  IF Len(spans) = 0 THEN Append(spans, span)
  ELSE LET last_ == spans[Len(spans)]
       IN IF last_.range.end.column = span.range.start.column /\ last_.style_id = span.style_id
          THEN [spans EXCEPT ![Len(spans)] = [span EXCEPT !.range.start = last_.range.start]]
          ELSE Append(spans, span)

\* LineHighlight::pushOrMergeSpan
pushOrMergeSpan(spans, span) ==
  IF Len(spans) = 0 THEN Append(spans, span)
  ELSE LET last_ == spans[Len(spans)]
       IN IF last_.range.end.column = span.range.start.column /\ last_.style_id = span.style_id
          THEN [spans EXCEPT ![Len(spans)].range.end.column = span.range.end.column,
                             ![Len(spans)].range.end.index = span.range.end.index]
          ELSE Append(spans, span)

-----------------------------------------------------------------------------
(* LineHighlightAnalyzer *)

\* a default-constructed MatchResult
MatchResult ==
  [matched |-> FALSE, start |-> 0, length |-> 0, token_rule_idx |-> -1,
   goto_state |-> -1, style |-> 0, matched_text |-> <<>>,
   capture_groups |-> <<>>, sub_spans |-> <<>>,
   \* sub_trail: the values sub_pos took in the sub-grammar loop of this match
   sub_trail |-> <<>>]

\* LineHighlightAnalyzer::findMatchedRuleAndGroup
findMatchedRuleAndGroup_FirstRule(state_rule, region, text, match_start_byte, match_end_byte, result) ==
  [result EXCEPT !.token_rule_idx = 0,
                 !.goto_state = state_rule.token_rules[1].goto_state,
                 !.style = getGroupStyleId(state_rule.token_rules[1], 0)]

findMatchedRuleAndGroup(state_rule, region, text, match_start_byte, match_end_byte, result) ==
  LET R == state_rule.token_rules
      won == {i \in 1..Len(R) : /\ region.beg[R[i].group_offset_start] = match_start_byte
                                /\ region.end[R[i].group_offset_start] = match_end_byte}
  IN IF won = {} THEN result
     ELSE LET i == CHOOSE j \in won : \A k \in won : j <= k
              token_rule == R[i]
              token_group_start == token_rule.group_offset_start
              inside(group) ==
                /\ region.beg[group + token_group_start] >= match_start_byte
                /\ region.end[group + token_group_start] <= match_end_byte
              group_match(group) ==
                LET match_start_char == bytePosToCharPos(text, region.beg[group + token_group_start])
                    match_end_char == bytePosToCharPos(text, region.end[group + token_group_start])
                IN [group |-> group, style |-> getGroupStyleId(token_rule, group),
                    start |-> match_start_char, length |-> match_end_char - match_start_char]
              all == [group \in 1..token_rule.group_count |-> group]
              kept == SelectSeq(all, inside)
          IN [result EXCEPT !.token_rule_idx = i - 1,
                            !.goto_state = token_rule.goto_state,
                            !.style = getGroupStyleId(token_rule, 0),
                            !.capture_groups = [k \in 1..Len(kept) |-> group_match(kept[k])]]

\* a span of a sub-grammar: only its columns and style are set
SubSpan(from, to, style) ==
  [TokenSpan EXCEPT !.range.start.column = from, !.range.end.column = to, !.style_id = style]

ShiftSpan(s, by) ==
  [s EXCEPT !.range.start.column = @ + by, !.range.end.column = @ + by]

RECURSIVE matchAtPosition(_, _, _)
RECURSIVE subLoop(_, _, _, _, _, _)

\* the gap before a sub-match that starts after sub_pos
subGap(sub_pos, sub_res, style) ==
  IF sub_res.start > sub_pos THEN <<SubSpan(sub_pos, sub_res.start, style)>> ELSE <<>>

\* the spans of one sub-match: its own sub_spans, else its capture groups, else the match
subContent(sub_res) ==
  IF Len(sub_res.sub_spans) > 0
  THEN [k \in 1..Len(sub_res.sub_spans) |-> ShiftSpan(sub_res.sub_spans[k], sub_res.start)]
  ELSE IF Len(sub_res.capture_groups) > 0
  THEN [k \in 1..Len(sub_res.capture_groups) |->
          SubSpan(sub_res.capture_groups[k].start + sub_res.start,
                  sub_res.capture_groups[k].start + sub_res.capture_groups[k].length
                    + sub_res.start,
                  sub_res.capture_groups[k].style)]
  ELSE <<SubSpan(sub_res.start, sub_res.start + sub_res.length, sub_res.style)>>

\* the tail gap added once the sub-grammar loop has ended at sub_pos
subTail(matched_text, sub_pos, style, sub_spans, trail) ==
  [sub_spans |-> IF sub_pos < countChars(matched_text)
                 THEN Append(sub_spans, SubSpan(sub_pos, countChars(matched_text), style))
                 ELSE sub_spans,
   trail |-> Append(trail, sub_pos)]

\* the body of the sub-grammar loop, sub_res being the match found at sub_pos
subStep(matched_text, sub_pos, sub_state_rule, style, sub_spans, trail, sub_res) ==
  IF ~sub_res.matched THEN subTail(matched_text, sub_pos, style, sub_spans, trail)
  ELSE subLoop(matched_text,
               sub_res.start + sub_res.length + (IF sub_res.length = 0 THEN 1 ELSE 0),
               sub_state_rule, style,
               sub_spans \o subGap(sub_pos, sub_res, style) \o subContent(sub_res),
               Append(trail, sub_pos))

\* the while loop of the sub-grammar descent, and the tail gap after it
subLoop(matched_text, sub_pos, sub_state_rule, style, sub_spans, trail) ==
  IF sub_pos >= countChars(matched_text)
  THEN subTail(matched_text, sub_pos, style, sub_spans, trail)
  ELSE subStep(matched_text, sub_pos, sub_state_rule, style, sub_spans, trail,
               matchAtPosition(matched_text, sub_pos, sub_state_rule))

isZeroWidth_Never(match_start_byte, match_end_byte) == FALSE

\* the test that rejects a match whose end is not after its start
isZeroWidth(match_start_byte, match_end_byte) == match_end_byte <= match_start_byte

\* result with the outcome of its sub-grammar loop stored
withSubSpans(result, sub) ==
  [result EXCEPT !.sub_spans = sub.sub_spans, !.sub_trail = sub.trail]

\* the sub-grammar descent for a match whose rule has been resolved
descend(state_rule, result) ==
  IF result.token_rule_idx < 0 THEN result
  ELSE IF Len(state_rule.token_rules[result.token_rule_idx + 1].sub_state_rule) = 0 THEN result
  ELSE withSubSpans(result,
         subLoop(result.matched_text, 0,
                 state_rule.token_rules[result.token_rule_idx + 1].sub_state_rule[1],
                 result.style, <<>>, <<>>))

\* a match of positive width from match_start_char to match_end_char
matchFound(text, state_rule, region, match_start_char, match_end_char) ==
  descend(state_rule,
          findMatchedRuleAndGroup(state_rule, region, text, region.pos, region.end[0],
            [MatchResult EXCEPT
               !.matched = TRUE,
               !.start = match_start_char,
               !.length = match_end_char - match_start_char,
               !.matched_text = utf8Substr(text, match_start_char,
                                           match_end_char - match_start_char)]))

\* what matchAtPosition makes of the region onig_search returned
matchOfRegion(text, state_rule, region) ==
  IF region.pos < 0 THEN MatchResult
  ELSE IF isZeroWidth(region.pos, region.end[0]) THEN MatchResult
  ELSE matchFound(text, state_rule, region, bytePosToCharPos(text, region.pos),
                  bytePosToCharPos(text, region.end[0]))

\* LineHighlightAnalyzer::matchAtPosition(text, start_char_pos, const StateRule &)
matchAtPosition(text, start_char_pos, state_rule) ==
  matchOfRegion(text, state_rule,
                onig_search(state_rule, text, charPosToBytePos(text, start_char_pos)))

\* The OnigRegion calls of matchAtPosition, in the order they are made; a
\* region is named by the depth of the call that allocated it.
onig_region_new(depth) == <<[op |-> "new", region |-> depth]>>

regionFreeZeroWidth_Leak(depth) == <<>>

\* onig_region_free on the zero-width exit
regionFreeZeroWidth(depth) == <<[op |-> "free", region |-> depth]>>

\* onig_region_free at the end of matchAtPosition
regionFreeEnd(depth) == <<[op |-> "free", region |-> depth]>>

RECURSIVE regionCalls(_, _, _, _)
RECURSIVE subRegionCalls(_, _, _, _)

\* the calls after the sub-match sub_res of the sub-grammar loop
subRegionNext(matched_text, sub_state_rule, depth, sub_res) ==
  IF ~sub_res.matched THEN <<>>
  ELSE subRegionCalls(matched_text, sub_res.start + sub_res.length, sub_state_rule, depth)

\* the calls of the sub-grammar loop from sub_pos on
subRegionCalls(matched_text, sub_pos, sub_state_rule, depth) ==
  IF sub_pos >= countChars(matched_text) THEN <<>>
  ELSE regionCalls(matched_text, sub_pos, sub_state_rule, depth)
         \o subRegionNext(matched_text, sub_state_rule, depth,
                          matchAtPosition(matched_text, sub_pos, sub_state_rule))

\* the calls made for a match of positive width, result being the match resolved
regionCallsOfMatch(state_rule, depth, result) ==
  IF result.token_rule_idx < 0 THEN <<>>
  ELSE IF Len(state_rule.token_rules[result.token_rule_idx + 1].sub_state_rule) = 0 THEN <<>>
  ELSE subRegionCalls(result.matched_text, 0,
                      state_rule.token_rules[result.token_rule_idx + 1].sub_state_rule[1],
                      depth + 1)

\* the calls after onig_search returned region
regionCallsAfterSearch(text, state_rule, depth, region) ==
  IF region.pos < 0 THEN regionFreeEnd(depth)
  ELSE IF region.end[0] <= region.pos THEN regionFreeZeroWidth(depth)
  ELSE regionCallsOfMatch(state_rule, depth, matchOfRegion(text, state_rule, region))
         \o regionFreeEnd(depth)

\* the calls of matchAtPosition(text, start_char_pos, state_rule)
regionCalls(text, start_char_pos, state_rule, depth) ==
  onig_region_new(depth)
    \o regionCallsAfterSearch(text, state_rule, depth,
                              onig_search(state_rule, text,
                                          charPosToBytePos(text, start_char_pos)))

\* the calls of matchAtPosition(text, start_char_pos, syntax_state)
regionCallsState(m_rule, text, start_char_pos, syntax_state) ==
  IF ~containsRule(m_rule, syntax_state) THEN <<>>
  ELSE regionCalls(text, start_char_pos, getStateRule(m_rule, syntax_state), 0)

\* the regions live after calls were made on the live regions, newest first;
\* a free of a region that is not the newest live one leaves -1 on top
RECURSIVE liveRegions(_, _, _)
liveRegions(calls, k, live) ==
  IF k > Len(calls) THEN live
  ELSE IF calls[k].op = "new" THEN liveRegions(calls, k + 1, <<calls[k].region>> \o live)
  ELSE IF Len(live) > 0 /\ live[1] = calls[k].region
  THEN liveRegions(calls, k + 1, Tail(live))
  ELSE <<-1>>

\* LineHighlightAnalyzer::matchAtPosition(text, start_char_pos, int32_t syntax_state)
matchAtPositionState(m_rule, text, start_char_pos, syntax_state) ==
  IF ~containsRule(m_rule, syntax_state) THEN MatchResult
  ELSE matchAtPosition(text, start_char_pos, getStateRule(m_rule, syntax_state))

TextLineInfo(line, start_state, start_char_offset) ==
  [line |-> line, start_state |-> start_state, start_char_offset |-> start_char_offset]

RECURSIVE pushAll(_, _, _)
pushAll(highlight, spans, k) ==
  IF k > Len(spans) THEN highlight
  ELSE pushAll(pushOrMergeSpan(highlight, spans[k]), spans, k + 1)

\* the span of sub-span sub of match_result, shifted to the line
spanOfSub(info, syntax_state, match_result, sub) ==
  [sub EXCEPT !.range.start = Position(info.line, sub.range.start.column + match_result.start,
                                       info.start_char_offset + sub.range.start.column
                                         + match_result.start),
              !.range.end = Position(info.line, sub.range.end.column + match_result.start,
                                     info.start_char_offset + sub.range.end.column
                                       + match_result.start),
              !.state = syntax_state]

\* the span of the whole match
spanOfMatch(info, syntax_state, match_result) ==
  [TokenSpan EXCEPT
     !.range.start = Position(info.line, match_result.start,
                              info.start_char_offset + match_result.start),
     !.range.end = Position(info.line, match_result.start + match_result.length,
                            info.start_char_offset + match_result.start + match_result.length),
     !.state = syntax_state,
     !.matched_text = match_result.matched_text,
     !.style_id = match_result.style,
     !.goto_state = match_result.goto_state]

spanOfGroup_MatchStyle(info, syntax_state, match_result, group_match) ==
  [TokenSpan EXCEPT
     !.range.start = Position(info.line, group_match.start,
                              info.start_char_offset + group_match.start),
     !.range.end = Position(info.line, group_match.start + group_match.length,
                            info.start_char_offset + group_match.start + group_match.length),
     !.state = syntax_state,
     !.style_id = match_result.style,
     !.goto_state = match_result.goto_state]

\* the span of capture group group_match of match_result
spanOfGroup(info, syntax_state, match_result, group_match) ==
  [TokenSpan EXCEPT
     !.range.start = Position(info.line, group_match.start,
                              info.start_char_offset + group_match.start),
     !.range.end = Position(info.line, group_match.start + group_match.length,
                            info.start_char_offset + group_match.start + group_match.length),
     !.state = syntax_state,
     !.style_id = group_match.style,
     !.goto_state = match_result.goto_state]

\* the spans addLineHighlightResult hands to pushOrMergeSpan, in order
spansOfMatch(info, syntax_state, match_result) ==
  IF Len(match_result.sub_spans) > 0
  THEN [k \in 1..Len(match_result.sub_spans) |->
          spanOfSub(info, syntax_state, match_result, match_result.sub_spans[k])]
  ELSE IF Len(match_result.capture_groups) = 0
  THEN <<spanOfMatch(info, syntax_state, match_result)>>
  ELSE [k \in 1..Len(match_result.capture_groups) |->
          spanOfGroup(info, syntax_state, match_result, match_result.capture_groups[k])]

\* LineHighlightAnalyzer::addLineHighlightResult
addLineHighlightResult(highlight, info, syntax_state, match_result) ==
  pushAll(highlight, spansOfMatch(info, syntax_state, match_result), 1)

-----------------------------------------------------------------------------
(* LineHighlightAnalyzer::analyzeLine *)

\* the locals of analyzeLine before the first iteration of its loop
LineFrame(info) ==
  [current_char_pos |-> 0, current_state |-> info.start_state, highlight |-> <<>>]

lineAdvance_KeepState(info, f, match_result) ==
  IF ~match_result.matched
  THEN [f EXCEPT !.current_char_pos = @ + 1]
  ELSE [f EXCEPT !.highlight = addLineHighlightResult(@, info, f.current_state, match_result),
                 !.current_char_pos = match_result.start + match_result.length]

lineAdvance_StateAfter(info, f, match_result) ==
  IF ~match_result.matched
  THEN [f EXCEPT !.current_char_pos = @ + 1]
  ELSE [f EXCEPT !.highlight = addLineHighlightResult(@, info,
                                 IF match_result.goto_state >= 0
                                 THEN match_result.goto_state ELSE f.current_state,
                                 match_result),
                 !.current_char_pos = match_result.start + match_result.length,
                 !.current_state = IF match_result.goto_state >= 0
                                   THEN match_result.goto_state ELSE @]

\* the frame after an iteration whose search returned match_result
lineAdvance(info, f, match_result) ==
  IF ~match_result.matched
  THEN [f EXCEPT !.current_char_pos = @ + 1]
  ELSE [f EXCEPT !.highlight = addLineHighlightResult(@, info, f.current_state, match_result),
                 !.current_char_pos = match_result.start + match_result.length,
                 !.current_state = IF match_result.goto_state >= 0
                                   THEN match_result.goto_state ELSE @]

\* one iteration of the while loop of analyzeLine
lineStep(m_rule, text, info, f) ==
  lineAdvance(info, f, matchAtPositionState(m_rule, text, f.current_char_pos, f.current_state))

lineEnd_Default(m_rule, text, f) ==
  [highlight |-> f.highlight, end_state |-> kDefaultStateId, char_count |-> countChars(text)]

\* the statements of analyzeLine after its loop
lineEnd(m_rule, text, f) ==
  LET state_rule == getStateRule(m_rule, f.current_state)
  IN [highlight |-> f.highlight,
      end_state |-> IF state_rule.line_end_state >= 0
                    THEN state_rule.line_end_state ELSE f.current_state,
      char_count |-> countChars(text)]

RECURSIVE lineLoop(_, _, _, _)
lineLoop(m_rule, text, info, f) ==
  IF f.current_char_pos < countChars(text)
  THEN lineLoop(m_rule, text, info, lineStep(m_rule, text, info, f))
  ELSE f

analyzeLine(m_rule, text, info) ==
  IF Len(text) = 0
  THEN [highlight |-> <<>>, end_state |-> info.start_state, char_count |-> 0]
  ELSE lineEnd(m_rule, text, lineLoop(m_rule, text, info, LineFrame(info)))

-----------------------------------------------------------------------------
(* TextAnalyzer::analyzeText.  The text is a sequence of characters in      *)
(* which "\n" and "\r" are characters of their own.                          *)

\* U8String::find('\n', start): the offset of the first "\n" at or after start, -1 (npos) if none
find(text, start) ==
  LET at == {i \in start..(Len(text) - 1) : text[i + 1] = "\n"}
  IN IF at = {} THEN -1 ELSE CHOOSE i \in at : \A j \in at : i <= j

\* a line with its trailing "\r" popped
stripCr(line_text) ==
  IF Len(line_text) > 0 /\ line_text[Len(line_text)] = "\r"
  THEN SubSeq(line_text, 1, Len(line_text) - 1) ELSE line_text

hasCr(line_text) == Len(line_text) > 0 /\ line_text[Len(line_text)] = "\r"

lastLine_SkipEmpty(m_rule, text, start, line_info, lines) ==
  IF start >= Len(text) THEN lines
  ELSE Append(lines, analyzeLine(m_rule, stripCr(SubSeq(text, start + 1, Len(text))),
                                 line_info).highlight)

\* the statements of analyzeText after its loop: the segment after the last "\n"
lastLine(m_rule, text, start, line_info, lines) ==
  Append(lines, analyzeLine(m_rule, stripCr(SubSeq(text, start + 1, Len(text))),
                            line_info).highlight)

RECURSIVE textLoop(_, _, _, _, _, _)

textStep_NoCr(m_rule, text, end, line_info, lines, has_cr, result) ==
  textLoop(m_rule, text, end + 1, find(text, end + 1),
           TextLineInfo(line_info.line + 1, result.end_state,
                        line_info.start_char_offset + result.char_count + 1),
           Append(lines, result.highlight))

\* the end of an iteration of the loop of analyzeText: result is the line's
\* analysis, has_cr whether a "\r" was popped from it
textStep(m_rule, text, end, line_info, lines, has_cr, result) ==
  textLoop(m_rule, text, end + 1, find(text, end + 1),
           TextLineInfo(line_info.line + 1, result.end_state,
                        line_info.start_char_offset + result.char_count
                          + (IF has_cr THEN 1 ELSE 0) + 1),
           Append(lines, result.highlight))

\* the while loop of analyzeText, followed by lastLine
textLoop(m_rule, text, start, end, line_info, lines) ==
  IF end # -1
  THEN textStep(m_rule, text, end, line_info, lines,
                hasCr(SubSeq(text, start + 1, end)),
                analyzeLine(m_rule, stripCr(SubSeq(text, start + 1, end)), line_info))
  ELSE lastLine(m_rule, text, start, line_info, lines)

analyzeText(m_rule, text) ==
  IF Len(text) = 0 THEN <<>>
  ELSE textLoop(m_rule, text, 0, find(text, 0),
                TextLineInfo(0, kDefaultStateId, 0), <<>>)

-----------------------------------------------------------------------------
(* Document: a sequence of lines, each a text and a line ending *)

DocumentLine(text, ending) == [text |-> text, ending |-> ending]

getLineEndingWidth(ending) ==
  CASE ending = "CRLF" -> 2
    [] ending = "LF" -> 1
    [] ending = "CR" -> 1
    [] OTHER -> 0

getLineCount(d) == Len(d)

\* lines are numbered from 0
getLine(d, line) == d[line + 1]

getLineCharCount(d, line) == countChars(getLine(d, line).text)

RECURSIVE charIndexOfLine(_, _)
charIndexOfLine(d, line) ==
  IF line = 0 THEN 0
  ELSE charIndexOfLine(d, line - 1) + getLineCharCount(d, line - 1)
         + getLineEndingWidth(getLine(d, line - 1).ending)

\* new_text cut at its line breaks: every piece but the last carries the
\* ending that closed it
RECURSIVE splitLines(_, _, _)
splitLines(text, k, cur) ==
  IF k > Len(text) THEN <<DocumentLine(cur, "NONE")>>
  ELSE IF text[k] = "\n"
  THEN IF hasCr(cur)
       THEN <<DocumentLine(stripCr(cur), "CRLF")>> \o splitLines(text, k + 1, <<>>)
       ELSE <<DocumentLine(cur, "LF")>> \o splitLines(text, k + 1, <<>>)
  ELSE splitLines(text, k + 1, Append(cur, text[k]))

TextRange(sl, sc, el, ec) ==
  [start |-> [line |-> sl, column |-> sc], end |-> [line |-> el, column |-> ec]]

\* Document::patch: the patched document and the change in its line count
patch(d, range, new_text) ==
  LET first == getLine(d, range.start.line)
      last_ == getLine(d, range.end.line)
      pre == SubSeq(first.text, 1, range.start.column)
      post == SubSeq(last_.text, range.end.column + 1, Len(last_.text))
      pieces == splitLines(new_text, 1, <<>>)
      n == Len(pieces)
      mid == IF n = 1
             THEN <<DocumentLine(pre \o pieces[1].text \o post, last_.ending)>>
             ELSE <<DocumentLine(pre \o pieces[1].text, pieces[1].ending)>>
                  \o SubSeq(pieces, 2, n - 1)
                  \o <<DocumentLine(pieces[n].text \o post, last_.ending)>>
  IN [doc |-> SubSeq(d, 1, range.start.line) \o mid \o SubSeq(d, range.end.line + 2, Len(d)),
      line_change |-> (n - 1) - (range.end.line - range.start.line)]

-----------------------------------------------------------------------------
(* InternalDocumentAnalyzer *)

RECURSIVE fullLoop(_, _, _, _, _, _, _)

\* the end of an iteration of the loop of analyzeHighlight, result being the line's analysis
fullStep(m_rule, d, line_num, line_start_index, states, lines, result) ==
  fullLoop(m_rule, d, line_num + 1, result.end_state,
           line_start_index + result.char_count
             + getLineEndingWidth(getLine(d, line_num).ending),
           [states EXCEPT ![line_num + 1] = result.end_state],
           Append(lines, result.highlight))

\* the for loop of analyzeHighlight
fullLoop(m_rule, d, line_num, current_state, line_start_index, states, lines) ==
  IF line_num < getLineCount(d)
  THEN fullStep(m_rule, d, line_num, line_start_index, states, lines,
                analyzeLine(m_rule, getLine(d, line_num).text,
                            TextLineInfo(line_num, current_state, line_start_index)))
  ELSE [states |-> states, lines |-> lines]

reset_Keep(lines) == lines

\* DocumentHighlight::reset
reset(lines) == <<>>

\* InternalDocumentAnalyzer::analyzeHighlight: m_line_syntax_states_ and
\* m_highlight_->lines after the call, old_states and old_lines being the
\* vector and the lines before it
analyzeHighlight(m_rule, d, old_states, old_lines) ==
  LET line_count == getLineCount(d)
      resized == [i \in 1..line_count |-> IF i <= Len(old_states) THEN old_states[i] ELSE 0]
  IN fullLoop(m_rule, d, 0, kDefaultStateId, 0, resized, reset(old_lines))

\* vector::erase of the positions [from, to), vector::insert of count copies of v at position at
erase(v, from, to) == SubSeq(v, 1, from) \o SubSeq(v, to + 1, Len(v))
insert(v, at, count, x) == SubSeq(v, 1, at) \o [i \in 1..count |-> x] \o SubSeq(v, at + 1, Len(v))

resizeForChange_NoErase(v, range, line_change, x) ==
  IF line_change > 0 THEN insert(v, range.end.line + 1, line_change, x) ELSE v

\* the erase / insert that keeps a vector as long as the patched document
resizeForChange(v, range, line_change, x) ==
  IF line_change < 0
  THEN erase(v, range.end.line + line_change + 1, range.end.line + 1)
  ELSE IF line_change > 0
  THEN insert(v, range.end.line + 1, line_change, x)
  ELSE v

isStable_NoStateCheck(line, change_end_line, old_state, current_state, old_line_highlight, highlight) ==
  /\ line > change_end_line
  /\ LineHighlightEq(old_line_highlight, highlight)

\* the stability test of the incremental loop
isStable(line, change_end_line, old_state, current_state, old_line_highlight, highlight) ==
  /\ line > change_end_line
  /\ old_state = current_state
  /\ LineHighlightEq(old_line_highlight, highlight)

RECURSIVE incrementalLoop(_, _, _, _, _, _, _, _, _)

\* the end of an iteration of the loop of analyzeHighlightIncremental, result
\* being the line's analysis
incrementalStep(m_rule, d, change_end_line, line, line_start_index, states, lines, result) ==
  incrementalLoop(m_rule, d, change_end_line, line + 1, result.end_state,
                  line_start_index + result.char_count
                    + getLineEndingWidth(getLine(d, line).ending),
                  [states EXCEPT ![line + 1] = result.end_state],
                  [lines EXCEPT ![line + 1] = result.highlight],
                  isStable(line, change_end_line, states[line + 1], result.end_state,
                           lines[line + 1], result.highlight))

\* the re-tokenizing for loop of analyzeHighlightIncremental
incrementalLoop(m_rule, d, change_end_line, line, current_state, line_start_index, states, lines, stable) ==
  IF line < getLineCount(d) /\ ~stable
  THEN incrementalStep(m_rule, d, change_end_line, line, line_start_index, states, lines,
                       analyzeLine(m_rule, getLine(d, line).text,
                                   TextLineInfo(line, current_state, line_start_index)))
  ELSE [states |-> states, lines |-> lines, line |-> line,
        line_start_index |-> line_start_index, stable |-> stable]

\* the index fix-up loop over the lines that were not tokenized again
reindex(span, line_start_index) ==
  [span EXCEPT !.range.start.index = line_start_index + span.range.start.column,
               !.range.end.index = line_start_index + span.range.end.column]

RECURSIVE fixupLoop(_, _, _, _)
fixupLoop(d, line, line_start_index, lines) ==
  IF line < getLineCount(d)
  THEN fixupLoop(d, line + 1, line_start_index + getLineCharCount(d, line),
         [lines EXCEPT ![line + 1] =
            [k \in 1..Len(lines[line + 1]) |-> reindex(lines[line + 1][k], line_start_index)]])
  ELSE lines

\* the statements after the loop, looped being what the loop left
afterLoop(cfg_show_index, d, line_change, looped) ==
  [doc |-> d,
   states |-> looped.states,
   lines |-> IF cfg_show_index
             THEN fixupLoop(d, looped.line, looped.line_start_index, looped.lines)
             ELSE looped.lines,
   line_change |-> line_change,
   stop_line |-> looped.line,
   stable |-> looped.stable]

retokenize_DefaultSeed(m_rule, cfg_show_index, d, line_change, change_start_line, change_end_line, states, lines) ==
  afterLoop(cfg_show_index, d, line_change,
            incrementalLoop(m_rule, d, change_end_line, change_start_line, kDefaultStateId,
                            charIndexOfLine(d, change_start_line), states, lines, FALSE))

\* the seeding of the loop and the loop, on the patched document d and the resized vectors
retokenize(m_rule, cfg_show_index, d, line_change, change_start_line, change_end_line, states, lines) ==
  afterLoop(cfg_show_index, d, line_change,
            incrementalLoop(m_rule, d, change_end_line, change_start_line,
                            IF change_start_line > 0 THEN states[change_start_line]
                            ELSE kDefaultStateId,
                            charIndexOfLine(d, change_start_line), states, lines, FALSE))

\* the statements after the patch, patched being what Document::patch returned
afterPatch(m_rule, cfg_show_index, states, lines, range, patched) ==
  retokenize(m_rule, cfg_show_index, patched.doc, patched.line_change,
             range.start.line, range.end.line + patched.line_change,
             resizeForChange(states, range, patched.line_change, 0),
             resizeForChange(lines, range, patched.line_change, <<>>))

\* InternalDocumentAnalyzer::analyzeHighlightIncremental(range, new_text)
analyzeHighlightIncremental(m_rule, cfg_show_index, d, states, lines, range, new_text) ==
  afterPatch(m_rule, cfg_show_index, states, lines, range, patch(d, range, new_text))

\* Document::totalChars: the characters of all lines and their endings
totalChars(d) ==
  charIndexOfLine(d, getLineCount(d) - 1) + getLineCharCount(d, getLineCount(d) - 1)
    + getLineEndingWidth(getLine(d, getLineCount(d) - 1).ending)

\* the last line, from line on, that starts at or before index
RECURSIVE lineOfIndex(_, _, _)
lineOfIndex(d, line, index) ==
  IF line + 1 < getLineCount(d) /\ charIndexOfLine(d, line + 1) <= index
  THEN lineOfIndex(d, line + 1, index)
  ELSE line

\* Document::charIndexToPosition: the line that holds index and the distance
\* of index from the start of that line
charIndexToPosition(d, index) ==
  [line |-> lineOfIndex(d, 0, index),
   column |-> index - charIndexOfLine(d, lineOfIndex(d, 0, index))]

\* the ranges Document::patch takes: start before end, both inside their lines
wellFormed(d, range) ==
  /\ range.start.line < getLineCount(d) /\ range.end.line < getLineCount(d)
  /\ range.start.column <= getLineCharCount(d, range.start.line)
  /\ range.end.column <= getLineCharCount(d, range.end.line)
  /\ \/ range.start.line < range.end.line
     \/ range.start.line = range.end.line /\ range.start.column <= range.end.column

clampEnd_None(end_index, total) == end_index

\* end_index = std::min(end_index, m_document_->totalChars())
clampEnd(end_index, total) == IF total < end_index THEN total ELSE end_index

\* the range analyzeHighlightIncremental(start_index, end_index, new_text) passes on
indexRange(d, start_index, end_index) ==
  [start |-> charIndexToPosition(d, start_index),
   end |-> charIndexToPosition(d, clampEnd(end_index, totalChars(d)))]

-----------------------------------------------------------------------------
(* Spec: one document analyzer under analyze() and analyzeIncremental()     *)

\* the texts a document line takes
LineTexts == {<<>>, <<"a">>, <<"w">>}

\* the grammars a document analyzer is built with
DocGrammars == {1, 2}

\* documents of n lines; every line but the last ends in LF
RECURSIVE DocsOf(_)
DocsOf(n) ==
  IF n = 1 THEN {<<DocumentLine(t, "NONE")>> : t \in LineTexts}
  ELSE {<<DocumentLine(t, "LF")>> \o d : t \in LineTexts, d \in DocsOf(n - 1)}

InitialDocs == UNION {DocsOf(n) : n \in 1..MaxLines}

NewTexts == {<<>>, <<"a">>, <<"w">>, <<"\n">>, <<"\n", "\n">>}

Positions(d) ==
  {lc \in (0..(Len(d) - 1)) \X (0..1) : lc[2] <= Len(d[lc[1] + 1].text)}

Ranges(d) ==
  {TextRange(pq[1][1], pq[1][2], pq[2][1], pq[2][2]) :
     pq \in {x \in Positions(d) \X Positions(d) :
               x[2][1] > x[1][1] \/ (x[2][1] = x[1][1] /\ x[2][2] >= x[1][2])}}

InBounds(d, cap) ==
  /\ Len(d) <= cap
  /\ \A i \in 1..Len(d) : d[i].text \in LineTexts

\* last: the last call, the line_change of its patch, whether its loop
\* stopped at a stability point with lines left that it did not tokenize, and
\* whether it is an analyze() that follows an analyze()
NoCall == [op |-> "new", line_change |-> 0, tail |-> FALSE, again |-> FALSE]

IdleLine == [pc |-> "idle"]
IdleText == [pc |-> "idle"]
IdleEdit == [pc |-> "idle"]
IdleEngine == [pc |-> "idle"]

Init ==
  /\ gid \in DocGrammars
  /\ show_index \in BOOLEAN
  /\ doc \in InitialDocs
  /\ S = <<>>
  /\ hl = <<>>
  /\ analyzed = FALSE
  /\ fault = FALSE
  /\ last = NoCall
  /\ ln = IdleLine
  /\ tx = IdleText
  /\ ob = IdleEdit
  /\ eng = IdleEngine

\* DocumentAnalyzer::analyze
Analyze ==
  /\ ~fault
  /\ \E r \in {analyzeHighlight(Grammars[gid], doc, S, hl)} :
       /\ S' = r.states
       /\ hl' = r.lines
  /\ analyzed' = TRUE
  /\ last' = [NoCall EXCEPT !.op = "analyze", !.again = (last.op = "analyze")]
  /\ UNCHANGED <<gid, show_index, doc, fault, ln, tx, ob, eng>>

\* DocumentAnalyzer::analyzeIncremental(range, new_text), on documents of at most cap lines
Edit(cap) ==
  /\ ~fault
  /\ \E range \in Ranges(doc), new_text \in NewTexts :
       \E patched \in {patch(doc, range, new_text)} :
          /\ InBounds(patched.doc, cap)
          /\ IF Len(S) = getLineCount(doc) /\ Len(hl) = getLineCount(doc)
             THEN \E r \in {analyzeHighlightIncremental(Grammars[gid], show_index, doc, S, hl,
                                                        range, new_text)} :
                     /\ doc' = r.doc
                     /\ S' = r.states
                     /\ hl' = r.lines
                     /\ fault' = FALSE
                     /\ last' = [op |-> "incremental", line_change |-> r.line_change,
                                 tail |-> r.stable /\ r.stop_line < getLineCount(r.doc),
                                 again |-> FALSE]
             ELSE \* S and lines are shorter than the document: the loop reads past their end
                  /\ doc' = patched.doc
                  /\ fault' = TRUE
                  /\ last' = [NoCall EXCEPT !.op = "incremental"]
                  /\ UNCHANGED <<S, hl>>
  /\ UNCHANGED <<gid, show_index, analyzed, ln, tx, ob, eng>>

AnalyzeIncremental == Edit(MaxLines)

Next == Analyze \/ AnalyzeIncremental

Spec == Init /\ [][Next]_vars

-----------------------------------------------------------------------------
(* SpecIndex: an analyzer with show_index set, on documents of up to        *)
(* IndexLines lines                                                          *)

InitIndex ==
  /\ gid = 1
  /\ show_index = TRUE
  /\ doc \in UNION {DocsOf(n) : n \in 1..IndexLines}
  /\ S = <<>>
  /\ hl = <<>>
  /\ analyzed = FALSE
  /\ fault = FALSE
  /\ last = NoCall
  /\ ln = IdleLine
  /\ tx = IdleText
  /\ ob = IdleEdit
  /\ eng = IdleEngine

AnalyzeIncrementalIndex == Edit(IndexLines)

NextIndex == Analyze \/ AnalyzeIncrementalIndex

SpecIndex == InitIndex /\ [][NextIndex]_vars

-----------------------------------------------------------------------------
(* SpecEdit: the analyzer of Spec, with one analyzeIncremental call observed: *)
(* ob keeps the call's range, the vectors as resized before the loop ran and  *)
(* the line the loop stopped at.  Lines range.start.line .. stop_line - 1 are *)
(* the ones the loop tokenized again.                                         *)

\* the analyzers of Spec that leave the span indices alone
InitEdit == Init /\ show_index = FALSE

AnalyzeBefore == ob.pc = "idle" /\ Analyze

EditBefore == ob.pc = "idle" /\ AnalyzeIncremental

\* analyzeIncremental(range, new_text) after analyze(), observed
ObserveEdit ==
  /\ ob.pc = "idle"
  /\ analyzed /\ ~fault
  /\ \E range \in Ranges(doc), new_text \in NewTexts :
       \E r \in {analyzeHighlightIncremental(Grammars[gid], show_index, doc, S, hl,
                                             range, new_text)} :
          /\ InBounds(r.doc, MaxLines)
          /\ doc' = r.doc
          /\ S' = r.states
          /\ hl' = r.lines
          /\ last' = [op |-> "incremental", line_change |-> r.line_change,
                      tail |-> r.stable /\ r.stop_line < getLineCount(r.doc),
                                 again |-> FALSE]
          /\ ob' = [pc |-> "done", range |-> range, new_text |-> new_text,
                    line_change |-> r.line_change,
                    old_states |-> resizeForChange(S, range, r.line_change, 0),
                    old_lines |-> resizeForChange(hl, range, r.line_change, <<>>),
                    stop_line |-> r.stop_line, stable |-> r.stable]
  /\ UNCHANGED <<gid, show_index, analyzed, fault, ln, tx, eng>>

\* the texts an edit by character indices puts in
IndexTexts == {<<>>, <<"a">>, <<"\n">>}

\* what ob keeps of an analyzeIncremental(start_index, end_index, new_text) call:
\* its arguments, the range it passed on, and the document and vectors before it
indexCall(start_index, end_index, new_text, range) ==
  [pc |-> "index", start_index |-> start_index, end_index |-> end_index,
   new_text |-> new_text, range |-> range, total |-> totalChars(doc),
   doc |-> doc, S |-> S, hl |-> hl]

\* analyzeIncremental(start_index, end_index, new_text) after analyze(), observed;
\* end_index runs up to MaxOver characters past the end of the document
ObserveIndexEdit ==
  /\ ob.pc = "idle"
  /\ analyzed /\ ~fault
  /\ \E start_index \in 0..totalChars(doc), new_text \in IndexTexts :
       \E end_index \in start_index..(totalChars(doc) + MaxOver) :
          \E range \in {indexRange(doc, start_index, end_index)} :
             /\ ob' = indexCall(start_index, end_index, new_text, range)
             /\ last' = [NoCall EXCEPT !.op = "incremental"]
             /\ IF wellFormed(doc, range)
                THEN \E r \in {analyzeHighlightIncremental(Grammars[gid], show_index, doc, S, hl,
                                                           range, new_text)} :
                        /\ InBounds(r.doc, MaxLines)
                        /\ doc' = r.doc
                        /\ S' = r.states
                        /\ hl' = r.lines
                        /\ fault' = FALSE
                ELSE \* Document::patch is handed a range outside the document
                     /\ fault' = TRUE
                     /\ UNCHANGED <<doc, S, hl>>
  /\ UNCHANGED <<gid, show_index, analyzed, ln, tx, eng>>

NextEdit == AnalyzeBefore \/ EditBefore \/ ObserveEdit

SpecEdit == InitEdit /\ [][NextEdit]_vars

NextClamp == AnalyzeBefore \/ EditBefore \/ ObserveIndexEdit

\* SpecClamp: SpecEdit with the observed call made by character indices
SpecClamp == InitEdit /\ [][NextClamp]_vars

-----------------------------------------------------------------------------
(* SpecCalls: the calls of one DocumentAnalyzer with what they return.  gid *)
(* is nullptr for an analyzer constructed with a null syntax rule.  A       *)
(* returned pointer is the number of a DocumentHighlight object: object     *)
(* m_highlight_ holds the lines hl, any other object the lines it was made  *)
(* with.  ob keeps the last call, the pointer it returned and the pointer   *)
(* the first call returned with the lines seen through it at that time.     *)

\* the DocumentHighlight the constructor of InternalDocumentAnalyzer makes
m_highlight_ == 1

\* what a call leaves: the pointer it returns, the document and the vectors
callResult(ret, d, states, lines) ==
  [ret |-> ret, doc |-> d, states |-> states, lines |-> lines, made |-> <<>>]

returnHighlight_Snapshot(d, r) ==
  [ret |-> m_highlight_ + 1, doc |-> d, states |-> r.states, lines |-> r.lines,
   made |-> r.lines]

\* return m_highlight_ at the end of a call that left r
returnHighlight(d, r) == callResult(m_highlight_, d, r.states, r.lines)

\* DocumentAnalyzer::analyze on an analyzer whose m_rule_ is rule
analyze(rule, d, states, lines) ==
  IF rule = nullptr THEN callResult(nullptr, d, states, lines)
  ELSE returnHighlight(d, analyzeHighlight(Grammars[rule], d, states, lines))

\* the statements of analyzeHighlightIncremental after the test of m_rule_
incrementalBody(rule, d, states, lines, range, patched) ==
  returnHighlight(patched.doc, afterPatch(Grammars[rule], FALSE, states, lines, range, patched))

analyzeIncremental_PatchFirst(rule, d, states, lines, range, new_text) ==
  IF rule = nullptr THEN callResult(nullptr, patch(d, range, new_text).doc, states, lines)
  ELSE incrementalBody(rule, d, states, lines, range, patch(d, range, new_text))

\* DocumentAnalyzer::analyzeIncremental(range, new_text)
analyzeIncremental(rule, d, states, lines, range, new_text) ==
  IF rule = nullptr THEN callResult(nullptr, d, states, lines)
  ELSE incrementalBody(rule, d, states, lines, range, patch(d, range, new_text))

\* DocumentAnalyzer::analyzeIncremental(start_index, end_index, new_text)
analyzeIncrementalIndex(rule, d, states, lines, start_index, end_index, new_text) ==
  analyzeIncremental(rule, d, states, lines, indexRange(d, start_index, end_index), new_text)

\* the analyzers of SpecCalls: a null rule or grammar 1, show_index off
InitCalls ==
  /\ gid \in {nullptr, 1}
  /\ show_index = FALSE
  /\ doc \in UNION {DocsOf(n) : n \in 1..CallLines}
  /\ S = <<>> /\ hl = <<>> /\ analyzed = FALSE /\ fault = FALSE /\ last = NoCall
  /\ ln = IdleLine /\ tx = IdleText /\ eng = IdleEngine
  /\ ob = [pc |-> "new", op |-> "new", ret |-> nullptr, made |-> <<>>,
           first |-> nullptr, first_lines |-> <<>>]

\* the call op left r: the analyzer's fields and what the caller holds
callReturns(op, r) ==
  /\ doc' = r.doc /\ S' = r.states /\ hl' = r.lines
  /\ ob' = [pc |-> "returned", op |-> op, ret |-> r.ret, made |-> r.made,
            first |-> IF ob.first = nullptr THEN r.ret ELSE ob.first,
            first_lines |-> IF ob.first = nullptr /\ r.ret # nullptr THEN r.lines
                            ELSE ob.first_lines]

\* the call reads or writes outside S or lines, or patches outside the document
callFaults(op) ==
  /\ fault' = TRUE
  /\ ob' = [ob EXCEPT !.pc = "returned", !.op = op, !.ret = nullptr]
  /\ UNCHANGED <<doc, S, hl>>

\* analyzer->analyze()
CallAnalyze ==
  /\ ~fault
  /\ \E r \in {analyze(gid, doc, S, hl)} : callReturns("analyze", r)
  /\ analyzed' = (gid # nullptr)
  /\ UNCHANGED <<gid, show_index, fault, last, ln, tx, eng>>

\* the vectors are as long as the document, as the loop takes them to be
sized == Len(S) = getLineCount(doc) /\ Len(hl) = getLineCount(doc)

\* analyzer->analyzeIncremental(range, new_text)
CallIncremental ==
  /\ ~fault
  /\ \E range \in Ranges(doc), new_text \in IndexTexts :
       /\ InBounds(patch(doc, range, new_text).doc, CallLines)
       /\ IF gid = nullptr \/ sized
          THEN /\ \E r \in {analyzeIncremental(gid, doc, S, hl, range, new_text)} :
                    callReturns("range", r)
               /\ UNCHANGED fault
          ELSE callFaults("range")
  /\ UNCHANGED <<gid, show_index, analyzed, last, ln, tx, eng>>

\* analyzer->analyzeIncremental(start_index, end_index, new_text)
CallIncrementalIndex ==
  /\ ~fault
  /\ \E start_index \in 0..totalChars(doc), new_text \in IndexTexts :
       \E end_index \in start_index..(totalChars(doc) + MaxOver) :
          IF gid = nullptr
             \/ (sized /\ wellFormed(doc, indexRange(doc, start_index, end_index)))
          THEN /\ gid # nullptr =>
                    InBounds(patch(doc, indexRange(doc, start_index, end_index),
                                   new_text).doc, CallLines)
               /\ \E r \in {analyzeIncrementalIndex(gid, doc, S, hl, start_index, end_index,
                                                     new_text)} :
                    callReturns("index", r)
               /\ UNCHANGED fault
          ELSE callFaults("index")
  /\ UNCHANGED <<gid, show_index, analyzed, last, ln, tx, eng>>

NextCalls == CallAnalyze \/ CallIncremental \/ CallIncrementalIndex

SpecCalls == InitCalls /\ [][NextCalls]_vars

-----------------------------------------------------------------------------
(* SpecEq: TokenSpan::operator== and LineHighlight::operator== applied to   *)
(* two spans and to two lines                                               *)

\* spans of line 0 that start at column 0 and differ in every field
EqSpans ==
  {[range |-> [start |-> Position(0, 0, 0), end |-> Position(0, c, c)],
    style_id |-> st, state |-> s, goto_state |-> g, matched_text |-> t,
    inline_style |-> i] :
     c \in 1..2, st \in 1..2, s \in 0..1, g \in {kNoGoto, 1},
     t \in {<<"a">>, <<"w">>}, i \in {"", "bold"}}

\* the spans the compared lines are made of
EqLineSpans ==
  {sp \in EqSpans : sp.range.end.column = 1 /\ sp.state = 0 /\ sp.inline_style = ""}

EqLines == {<<>>} \cup {<<sp>> : sp \in EqLineSpans} \cup (EqLineSpans \X EqLineSpans)

InitEq ==
  /\ gid = 1 /\ show_index = FALSE /\ doc = <<>> /\ S = <<>> /\ hl = <<>>
  /\ analyzed = FALSE /\ fault = FALSE /\ last = NoCall
  /\ ln = IdleLine /\ tx = IdleText /\ eng = IdleEngine
  /\ \/ \E a \in EqSpans, b \in EqSpans : ob = [pc |-> "spans", a |-> a, b |-> b]
     \/ \E x \in EqLines, y \in EqLines : ob = [pc |-> "lines", x |-> x, y |-> y]

\* a == b on two TokenSpans
CompareSpans ==
  /\ ob.pc = "spans"
  /\ ob' = [pc |-> "spans compared", a |-> ob.a, b |-> ob.b, eq |-> SpanEq(ob.a, ob.b)]
  /\ UNCHANGED <<gid, show_index, doc, S, hl, analyzed, fault, last, ln, tx, eng>>

\* x == y on two LineHighlights
CompareLines ==
  /\ ob.pc = "lines"
  /\ ob' = [pc |-> "lines compared", x |-> ob.x, y |-> ob.y,
            eq |-> LineHighlightEq(ob.x, ob.y)]
  /\ UNCHANGED <<gid, show_index, doc, S, hl, analyzed, fault, last, ln, tx, eng>>

NextEq == CompareSpans \/ CompareLines

SpecEq == InitEq /\ [][NextEq]_vars

-----------------------------------------------------------------------------
(* SpecMerge: LineHighlight::pushOrMergeSpan applied to a line of up to two *)
(* spans and a new span                                                     *)

\* spans of one character at column 0 or 1 that differ in every other field
MergeSpans ==
  {[range |-> [start |-> Position(0, c, 5 + c), end |-> Position(0, c + 1, 6 + c)],
    style_id |-> st, state |-> s, goto_state |-> g, matched_text |-> t,
    inline_style |-> i] :
     c \in 0..1, st \in 1..2, s \in 0..1, g \in {kNoGoto, 1},
     t \in {<<"a">>, <<"w">>}, i \in {"", "bold"}}

\* the spans that come first in a line of two
EarlierSpans ==
  {sp \in MergeSpans : sp.range.start.column = 0 /\ sp.state = 0 /\ sp.goto_state = kNoGoto
                         /\ sp.matched_text = <<"a">> /\ sp.inline_style = ""}

MergeLines ==
  {<<>>} \cup {<<sp>> : sp \in MergeSpans}
         \cup {<<e, sp>> : e \in EarlierSpans,
                           sp \in {x \in MergeSpans : x.range.start.column = 1}}

\* the new span starts where a line's last span may end
NewSpans ==
  {[sp EXCEPT !.range.start = Position(0, sp.range.start.column + 1,
                                       6 + sp.range.start.column),
              !.range.end = Position(0, sp.range.start.column + 2,
                                     7 + sp.range.start.column)] : sp \in MergeSpans}

InitMerge ==
  /\ gid = 1 /\ show_index = FALSE /\ doc = <<>> /\ S = <<>> /\ hl = <<>>
  /\ analyzed = FALSE /\ fault = FALSE /\ last = NoCall
  /\ ln = IdleLine /\ tx = IdleText /\ eng = IdleEngine
  /\ \E spans \in MergeLines, span \in NewSpans :
       ob = [pc |-> "push", spans |-> spans, span |-> span]

\* highlight.pushOrMergeSpan(span)
PushOrMerge ==
  /\ ob.pc = "push"
  /\ ob' = [pc |-> "pushed", spans |-> ob.spans, span |-> ob.span,
            result |-> pushOrMergeSpan(ob.spans, ob.span)]
  /\ UNCHANGED <<gid, show_index, doc, S, hl, analyzed, fault, last, ln, tx, eng>>

NextMerge == PushOrMerge

SpecMerge == InitMerge /\ [][NextMerge]_vars

-----------------------------------------------------------------------------
(* SpecLine: one call of analyzeLine, one loop iteration per step *)

StartStates == {0, 1, 9}

InitLine ==
  /\ gid = 1 /\ show_index = FALSE /\ doc = <<>> /\ S = <<>> /\ hl = <<>>
  /\ analyzed = FALSE /\ fault = FALSE /\ last = NoCall /\ tx = IdleText
  /\ ob = IdleEdit /\ eng = IdleEngine
  /\ \E g \in 1..Len(Grammars), text \in SeqsUpTo(Chars, MaxTextLen), st \in StartStates :
       ln = [pc |-> "start", g |-> g, text |-> text, info |-> TextLineInfo(1, st, 5),
             f |-> LineFrame(TextLineInfo(1, st, 5)),
             \* loop iterations made, matches among them, the cursor after each
             iters |-> 0, matches |-> 0, trail |-> <<0>>,
             \* the last match, the state it was searched in and the spans
             \* emitted for it alone
             m |-> MatchResult, m_state |-> st, emitted |-> <<>>,
             \* the iterations whose search returned a match that ends where
             \* it starts, and the characters the matches started at
             rejected |-> {}, starts |-> {},
             \* the OnigRegion calls of the last iteration and the regions live
             \* after all iterations
             regions |-> <<>>, live |-> <<>>,
             result |-> [highlight |-> <<>>, end_state |-> 0, char_count |-> 0]]

\* the region onig_search returned holds a match that ends where it starts
zeroWidthRegion(region) == region.pos >= 0 /\ region.end[0] <= region.pos

\* the search of an iteration at start_char_pos in syntax_state returns such a match
searchIsZeroWidth(m_rule, text, start_char_pos, syntax_state) ==
  /\ containsRule(m_rule, syntax_state)
  /\ zeroWidthRegion(onig_search(getStateRule(m_rule, syntax_state), text,
                                 charPosToBytePos(text, start_char_pos)))

\* the empty-text test at the head of analyzeLine
LineEnter ==
  /\ ln.pc = "start"
  /\ ln' = IF Len(ln.text) = 0
           THEN [ln EXCEPT !.pc = "done", !.result = analyzeLine(Grammars[ln.g], ln.text, ln.info)]
           ELSE [ln EXCEPT !.pc = "loop"]
  /\ UNCHANGED <<gid, show_index, doc, S, hl, analyzed, fault, last, tx, ob, eng>>

\* one iteration of the loop
LineIterate ==
  /\ ln.pc = "loop"
  /\ ln.f.current_char_pos < countChars(ln.text)
  /\ ln.iters < 2 * MaxTextLen + 2
  /\ \E m \in {matchAtPositionState(Grammars[ln.g], ln.text, ln.f.current_char_pos,
                                    ln.f.current_state)},
        f \in {lineStep(Grammars[ln.g], ln.text, ln.info, ln.f)} :
       ln' = [ln EXCEPT !.f = f,
                        !.iters = @ + 1,
                        !.matches = @ + (IF m.matched THEN 1 ELSE 0),
                        !.trail = Append(@, f.current_char_pos),
                        !.m = IF m.matched THEN m ELSE @,
                        !.m_state = IF m.matched THEN ln.f.current_state ELSE @,
                        !.emitted = IF m.matched
                                    THEN addLineHighlightResult(<<>>, ln.info,
                                                                ln.f.current_state, m)
                                    ELSE @,
                        !.rejected = IF searchIsZeroWidth(Grammars[ln.g], ln.text,
                                                          ln.f.current_char_pos,
                                                          ln.f.current_state)
                                     THEN @ \cup {[pos |-> ln.f.current_char_pos,
                                                   state |-> ln.f.current_state,
                                                   next_pos |-> f.current_char_pos,
                                                   next_state |-> f.current_state,
                                                   emitted |-> Len(f.highlight)
                                                                 - Len(ln.f.highlight)]}
                                     ELSE @,
                        !.starts = IF m.matched THEN @ \cup {m.start} ELSE @,
                        !.regions = regionCallsState(Grammars[ln.g], ln.text,
                                                     ln.f.current_char_pos,
                                                     ln.f.current_state),
                        !.live = liveRegions(regionCallsState(Grammars[ln.g], ln.text,
                                                              ln.f.current_char_pos,
                                                              ln.f.current_state),
                                             1, @)]
  /\ UNCHANGED <<gid, show_index, doc, S, hl, analyzed, fault, last, tx, ob, eng>>

\* the statements after the loop
LineExit ==
  /\ ln.pc = "loop"
  /\ ~(ln.f.current_char_pos < countChars(ln.text))
  /\ ln' = [ln EXCEPT !.pc = "done", !.result = lineEnd(Grammars[ln.g], ln.text, ln.f)]
  /\ UNCHANGED <<gid, show_index, doc, S, hl, analyzed, fault, last, tx, ob, eng>>

NextLine == LineEnter \/ LineIterate \/ LineExit

SpecLine == InitLine /\ [][NextLine]_vars

-----------------------------------------------------------------------------
(* SpecText: one call of analyzeText *)

InputChars == Chars \cup {"\n", "\r"}

InitText ==
  /\ gid = 1 /\ show_index = FALSE /\ doc = <<>> /\ S = <<>> /\ hl = <<>>
  /\ analyzed = FALSE /\ fault = FALSE /\ last = NoCall /\ ln = IdleLine
  /\ ob = IdleEdit /\ eng = IdleEngine
  /\ \E g \in 1..Len(Grammars), text \in SeqsUpTo(InputChars, MaxInputLen) :
       tx = [pc |-> "call", g |-> g, text |-> text, lines |-> <<>>]

\* TextAnalyzer::analyzeText
TextAnalyze ==
  /\ tx.pc = "call"
  /\ tx' = [tx EXCEPT !.pc = "done", !.lines = analyzeText(Grammars[tx.g], tx.text)]
  /\ UNCHANGED <<gid, show_index, doc, S, hl, analyzed, fault, last, ln, ob, eng>>

NextText == TextAnalyze

SpecText == InitText /\ [][NextText]_vars

-----------------------------------------------------------------------------
(* HighlightEngine: the registry of compiled grammars and the analyzer map.  *)
(* m_syntax_rules_ is a sequence of rules in the order the container         *)
(* iterates them; a compiled rule enters it at any position.  An analyzer    *)
(* instance is a positive number, nullptr is 0.                              *)

\* most grammars compiled into one engine
MaxRules == 2
\* most DocumentAnalyzer instances one engine constructs
MaxInstances == 3

SyntaxRule(id, name, file_extensions) ==
  [id |-> id, name |-> name, file_extensions |-> file_extensions]

\* FileUtil::getExtension: the uri from its last "." on, empty without one
RECURSIVE getExtension(_)
getExtension(uri) ==
  IF Len(uri) = 0 THEN <<>>
  ELSE IF uri[Len(uri)] = "." THEN <<".">>
  ELSE IF Len(getExtension(SubSeq(uri, 1, Len(uri) - 1))) = 0 THEN <<>>
  ELSE Append(getExtension(SubSeq(uri, 1, Len(uri) - 1)), uri[Len(uri)])

\* the loop of getSyntaxRuleByName from the i-th rule in iteration order on
RECURSIVE firstNamed(_, _, _)
firstNamed(m_syntax_rules, i, name) ==
  IF i > Len(m_syntax_rules) THEN nullptr
  ELSE IF m_syntax_rules[i].name = name THEN m_syntax_rules[i].id
  ELSE firstNamed(m_syntax_rules, i + 1, name)

\* HighlightEngine::getSyntaxRuleByName
getSyntaxRuleByName(m_syntax_rules, name) == firstNamed(m_syntax_rules, 1, name)

\* the loop of getSyntaxRuleByExtension from the i-th rule in iteration order on
RECURSIVE firstWithExtension(_, _, _)
firstWithExtension(m_syntax_rules, i, fixed_extension) ==
  IF i > Len(m_syntax_rules) THEN nullptr
  ELSE IF fixed_extension \in m_syntax_rules[i].file_extensions THEN m_syntax_rules[i].id
  ELSE firstWithExtension(m_syntax_rules, i + 1, fixed_extension)

\* the extension with a "." put in front unless it has one
fixedExtension(extension) ==
  IF extension[1] # "." THEN <<".">> \o extension ELSE extension

getSyntaxRuleByExtension_NoFix(m_syntax_rules, extension) ==
  IF Len(extension) = 0 THEN nullptr
  ELSE firstWithExtension(m_syntax_rules, 1, extension)

\* HighlightEngine::getSyntaxRuleByExtension
getSyntaxRuleByExtension(m_syntax_rules, extension) ==
  IF Len(extension) = 0 THEN nullptr
  ELSE firstWithExtension(m_syntax_rules, 1, fixedExtension(extension))

\* HighlightEngine::createAnalyzerByName: the rule of the TextAnalyzer made, nullptr if none
createAnalyzerByName(m_syntax_rules, syntax_name) ==
  getSyntaxRuleByName(m_syntax_rules, syntax_name)

\* HighlightEngine::createAnalyzerByExtension
createAnalyzerByExtension(m_syntax_rules, extension) ==
  getSyntaxRuleByExtension(m_syntax_rules, extension)

\* the outcome of loadDocument for a uri that is not in the map, rule being its grammar
loadNew(m_analyzer_map, uri, made, rule) ==
  IF rule = nullptr
  THEN [map |-> m_analyzer_map, analyzer |-> nullptr, made |-> made]
  ELSE [map |-> (uri :> (made + 1)) @@ m_analyzer_map, analyzer |-> made + 1,
        made |-> made + 1]

loadDocument_NoInsert(m_syntax_rules, m_analyzer_map, uri, made) ==
  IF getSyntaxRuleByExtension(m_syntax_rules, getExtension(uri)) = nullptr
  THEN [map |-> m_analyzer_map, analyzer |-> nullptr, made |-> made]
  ELSE [map |-> m_analyzer_map, analyzer |-> made + 1, made |-> made + 1]

loadDocument_CacheNull(m_syntax_rules, m_analyzer_map, uri, made) ==
  IF uri \in DOMAIN m_analyzer_map
  THEN [map |-> m_analyzer_map, analyzer |-> m_analyzer_map[uri], made |-> made]
  ELSE IF getSyntaxRuleByExtension(m_syntax_rules, getExtension(uri)) = nullptr
  THEN [map |-> (uri :> nullptr) @@ m_analyzer_map, analyzer |-> nullptr, made |-> made]
  ELSE [map |-> (uri :> (made + 1)) @@ m_analyzer_map, analyzer |-> made + 1,
        made |-> made + 1]

\* HighlightEngine::loadDocument: the map after the call, the analyzer
\* returned and the number of instances constructed so far
loadDocument(m_syntax_rules, m_analyzer_map, uri, made) ==
  IF uri \in DOMAIN m_analyzer_map
  THEN [map |-> m_analyzer_map, analyzer |-> m_analyzer_map[uri], made |-> made]
  ELSE loadNew(m_analyzer_map, uri, made,
               getSyntaxRuleByExtension(m_syntax_rules, getExtension(uri)))

\* HighlightEngine::removeDocument
removeDocument(m_analyzer_map, uri) ==
  [u \in DOMAIN m_analyzer_map \ {uri} |-> m_analyzer_map[u]]

-----------------------------------------------------------------------------
(* SpecEngine: one HighlightEngine under compile, loadDocument,             *)
(* removeDocument and the lookups.  eng.ret is what the last call was given *)
(* and returned; eng.first[uri] is the analyzer the first loadDocument of    *)
(* uri since its last removeDocument returned; eng.missed holds the uris    *)
(* whose last loadDocument returned nullptr, eng.dropped the uris removed   *)
(* while they had an analyzer and not loaded twice since.                   *)

Uris == {<<"f", ".", "a">>, <<"g", ".", "b">>, <<"h">>}

Names == {"x", "y"}

Extensions == {<<>>, <<"a">>, <<".", "a">>, <<"b">>}

\* the file_extensions of a compiled grammar
ExtensionSets == {{<<".", "a">>}, {<<".", "a">>, <<".", "b">>}}

NoReturn == [op |-> "none"]

InitEngine ==
  /\ gid = 1 /\ show_index = FALSE /\ doc = <<>> /\ S = <<>> /\ hl = <<>>
  /\ analyzed = FALSE /\ fault = FALSE /\ last = NoCall
  /\ ln = IdleLine /\ tx = IdleText /\ ob = IdleEdit
  /\ eng = [pc |-> "run", m_syntax_rules |-> <<>>, m_analyzer_map |-> <<>>, made |-> 0,
            ret |-> NoReturn, first |-> [u \in Uris |-> nullptr], missed |-> {},
            dropped |-> {}]

\* HighlightEngine::compileSyntaxFromJson / compileSyntaxFromFile
CompileSyntax ==
  /\ eng.pc = "run"
  /\ Len(eng.m_syntax_rules) < MaxRules
  /\ \E name \in Names, exts \in ExtensionSets, at \in 0..Len(eng.m_syntax_rules) :
       eng' = [eng EXCEPT
                 !.m_syntax_rules =
                    SubSeq(@, 1, at)
                      \o <<SyntaxRule(Len(eng.m_syntax_rules) + 1, name, exts)>>
                      \o SubSeq(@, at + 1, Len(@)),
                 !.ret = [op |-> "compile", rule |-> Len(eng.m_syntax_rules) + 1]]
  /\ UNCHANGED <<gid, show_index, doc, S, hl, analyzed, fault, last, ln, tx, ob>>

\* HighlightEngine::loadDocument
LoadDocument ==
  /\ eng.pc = "run"
  /\ eng.made < MaxInstances
  /\ \E uri \in Uris :
       \E r \in {loadDocument(eng.m_syntax_rules, eng.m_analyzer_map, uri, eng.made)} :
          eng' = [eng EXCEPT
                    !.m_analyzer_map = r.map,
                    !.made = r.made,
                    !.ret = [op |-> "load", uri |-> uri, analyzer |-> r.analyzer,
                             prior |-> eng.first[uri], made_before |-> eng.made,
                             missed |-> uri \in eng.missed,
                             dropped |-> uri \in eng.dropped],
                    !.first[uri] = IF @ = nullptr THEN r.analyzer ELSE @,
                    !.missed = IF r.analyzer = nullptr THEN @ \cup {uri} ELSE @ \ {uri},
                    !.dropped = IF eng.first[uri] # nullptr THEN @ \ {uri} ELSE @]
  /\ UNCHANGED <<gid, show_index, doc, S, hl, analyzed, fault, last, ln, tx, ob>>

\* HighlightEngine::removeDocument
RemoveDocument ==
  /\ eng.pc = "run"
  /\ \E uri \in Uris :
       eng' = [eng EXCEPT !.m_analyzer_map = removeDocument(@, uri),
                          !.ret = [op |-> "remove", uri |-> uri],
                          !.first[uri] = nullptr,
                          !.dropped = IF eng.first[uri] # nullptr THEN @ \cup {uri} ELSE @]
  /\ UNCHANGED <<gid, show_index, doc, S, hl, analyzed, fault, last, ln, tx, ob>>

\* HighlightEngine::createAnalyzerByName
CreateAnalyzerByName ==
  /\ eng.pc = "run"
  /\ \E name \in Names :
       eng' = [eng EXCEPT !.ret = [op |-> "byName", name |-> name,
                                   analyzer |-> createAnalyzerByName(eng.m_syntax_rules, name)]]
  /\ UNCHANGED <<gid, show_index, doc, S, hl, analyzed, fault, last, ln, tx, ob>>

\* HighlightEngine::createAnalyzerByExtension
CreateAnalyzerByExtension ==
  /\ eng.pc = "run"
  /\ \E extension \in Extensions :
       eng' = [eng EXCEPT !.ret = [op |-> "byExtension", extension |-> extension,
                                   analyzer |-> createAnalyzerByExtension(eng.m_syntax_rules,
                                                                          extension)]]
  /\ UNCHANGED <<gid, show_index, doc, S, hl, analyzed, fault, last, ln, tx, ob>>

NextEngine ==
  \/ CompileSyntax
  \/ LoadDocument
  \/ RemoveDocument
  \/ CreateAnalyzerByName
  \/ CreateAnalyzerByExtension

SpecEngine == InitEngine /\ [][NextEngine]_vars

-----------------------------------------------------------------------------
(* SpecBind: loadDocument with the Document objects it is given.  A Document *)
(* is an object number and a uri; eng.bound[k] holds the m_document_ and     *)
(* m_rule_ of analyzer instance k, eng.origin[uri] the Document and the rule *)
(* of the load that constructed the analyzer of uri.                         *)

\* two Document objects of one uri
Documents == {[id |-> i, uri |-> <<"f", ".", "a">>] : i \in 1..2}

\* new DocumentAnalyzer(document, rule, m_config_)
DocumentAnalyzer(document, rule) == [m_document_ |-> document.id, m_rule_ |-> rule]

\* DocumentAnalyzer::getDocument of an instance
getDocument(instances, analyzer) == instances[analyzer].m_document_

\* the outcome of loadDocument(document) for a uri that is not in the map
loadNewOf(m_analyzer_map, instances, document, rule) ==
  IF rule = nullptr
  THEN [map |-> m_analyzer_map, analyzer |-> nullptr, instances |-> instances]
  ELSE [map |-> (document.uri :> (Len(instances) + 1)) @@ m_analyzer_map,
        analyzer |-> Len(instances) + 1,
        instances |-> Append(instances, DocumentAnalyzer(document, rule))]

loadDocumentOf_Rebind(m_syntax_rules, m_analyzer_map, instances, document) ==
  IF document.uri \in DOMAIN m_analyzer_map
  THEN [map |-> m_analyzer_map, analyzer |-> m_analyzer_map[document.uri],
        instances |-> [instances EXCEPT ![m_analyzer_map[document.uri]].m_document_ =
                                          document.id]]
  ELSE loadNewOf(m_analyzer_map, instances, document,
                 getSyntaxRuleByExtension(m_syntax_rules, getExtension(document.uri)))

\* HighlightEngine::loadDocument(document): the map, the analyzer returned and
\* the instances constructed so far
loadDocumentOf(m_syntax_rules, m_analyzer_map, instances, document) ==
  IF document.uri \in DOMAIN m_analyzer_map
  THEN [map |-> m_analyzer_map, analyzer |-> m_analyzer_map[document.uri],
        instances |-> instances]
  ELSE loadNewOf(m_analyzer_map, instances, document,
                 getSyntaxRuleByExtension(m_syntax_rules, getExtension(document.uri)))

NoOrigin == [document |-> nullptr, rule |-> nullptr]

InitBind ==
  /\ gid = 1 /\ show_index = FALSE /\ doc = <<>> /\ S = <<>> /\ hl = <<>>
  /\ analyzed = FALSE /\ fault = FALSE /\ last = NoCall
  /\ ln = IdleLine /\ tx = IdleText /\ ob = IdleEdit
  /\ eng = [pc |-> "run", m_syntax_rules |-> <<>>, m_analyzer_map |-> <<>>, made |-> 0,
            ret |-> NoReturn, first |-> [u \in Uris |-> nullptr], missed |-> {},
            dropped |-> {}, bound |-> <<>>, origin |-> [u \in Uris |-> NoOrigin]]

\* HighlightEngine::loadDocument(document)
LoadDocumentOf ==
  /\ eng.pc = "run"
  /\ eng.made < MaxInstances
  /\ \E document \in Documents :
       \E r \in {loadDocumentOf(eng.m_syntax_rules, eng.m_analyzer_map, eng.bound, document)} :
          eng' = [eng EXCEPT
                    !.m_analyzer_map = r.map,
                    !.made = Len(r.instances),
                    !.bound = r.instances,
                    !.ret = [op |-> "loadOf", uri |-> document.uri, document |-> document.id,
                             analyzer |-> r.analyzer,
                             hit |-> document.uri \in DOMAIN eng.m_analyzer_map,
                             origin |-> eng.origin[document.uri]],
                    !.origin[document.uri] =
                       IF Len(r.instances) > Len(eng.bound)
                       THEN [document |-> document.id,
                             rule |-> getSyntaxRuleByExtension(eng.m_syntax_rules,
                                                               getExtension(document.uri))]
                       ELSE @]
  /\ UNCHANGED <<gid, show_index, doc, S, hl, analyzed, fault, last, ln, tx, ob>>

NextBind == CompileSyntax \/ LoadDocumentOf \/ RemoveDocument

SpecBind == InitBind /\ [][NextBind]_vars

-----------------------------------------------------------------------------
(* SpecGuard: one call of a tc_guarded_* wrapper of ffi_guard.c.  ob holds   *)
(* the wrapper, the platform of the build, the arguments, whether the callee *)
(* raises a structured exception and with which code, the value it returns   *)
(* otherwise, and the value behind the out pointer.                          *)

Wrappers ==
  {"ide_service_compile_files", "free_handle", "json_h_s", "json_h", "json_s",
   "json_s_usize_usize", "json_h_s_s", "json_h_s_i32", "json_h_s_s_i32",
   "error_h", "error_h_s", "error_h_s_s"}

Platforms == {"windows", "other"}

\* codes GetExceptionCode() returns for a raised exception, high bits left out
ExceptionCodes == {5, 148}

\* the __try / __except body of a wrapper
guardedWindows(args, raises, code, value, out) ==
  IF raises
  THEN [ret |-> code, out |-> out, calls |-> 1, passed |-> args]
  ELSE [ret |-> 0, out |-> value, calls |-> 1, passed |-> args]

\* the #else body of a wrapper
guardedOther(wrapper, args, value, out) ==
  IF wrapper \in {"ide_service_compile_files", "free_handle"}
  THEN [ret |-> 0, out |-> out, calls |-> 0, passed |-> <<>>]
  ELSE [ret |-> 0, out |-> value, calls |-> 1, passed |-> args]

\* tc_guarded_<wrapper>(func_ptr, args..., out)
tc_guarded(wrapper, platform, args, raises, code, value, out) ==
  IF platform = "windows" THEN guardedWindows(args, raises, code, value, out)
  ELSE guardedOther(wrapper, args, value, out)

\* structured exceptions are raised on Windows only
InitGuard ==
  /\ gid = 1 /\ show_index = FALSE /\ doc = <<>> /\ S = <<>> /\ hl = <<>>
  /\ analyzed = FALSE /\ fault = FALSE /\ last = NoCall
  /\ ln = IdleLine /\ tx = IdleText /\ eng = IdleEngine
  /\ \E wrapper \in Wrappers, platform \in Platforms, raises \in BOOLEAN,
        code \in ExceptionCodes, value \in {-1, 0, 7}, out \in {0, 9}, handle \in 1..2 :
       /\ raises => platform = "windows"
       /\ ob = [pc |-> "call", wrapper |-> wrapper, platform |-> platform,
                args |-> <<handle>>, raises |-> raises, code |-> code, value |-> value,
                out |-> out, out_before |-> out, ret |-> 0, calls |-> 0, passed |-> <<>>]

\* the call of the wrapper
GuardCall ==
  /\ ob.pc = "call"
  /\ \E r \in {tc_guarded(ob.wrapper, ob.platform, ob.args, ob.raises, ob.code, ob.value,
                            ob.out)} :
       ob' = [ob EXCEPT !.pc = "returned", !.ret = r.ret, !.out = r.out,
                        !.calls = r.calls, !.passed = r.passed]
  /\ UNCHANGED <<gid, show_index, doc, S, hl, analyzed, fault, last, ln, tx, eng>>

NextGuard == GuardCall

SpecGuard == InitGuard /\ [][NextGuard]_vars

-----------------------------------------------------------------------------
(* Properties of the document analyzer *)

\* DocumentHighlight equality: pairwise over the lines
DocumentHighlightEq(x, y) ==
  /\ Len(x) = Len(y)
  /\ \A i \in 1..Len(x) : LineHighlightEq(x[i], y[i])

\* what analyze() on a fresh analyzer over the current text produces
FullAnalysis == analyzeHighlight(Grammars[gid], doc, <<>>, <<>>)

\* C1: the DocumentHighlight an analyzeIncremental call returns equals the one
\* a full analysis of the final text produces.
IncrementalEqualsFull ==
  (analyzed /\ ~fault /\ last.op = "incremental")
    => DocumentHighlightEq(hl, FullAnalysis.lines)

\* C2: after analyze() and any edits, every S[i] is the end state of
\* tokenizing line i of the current text from S[i-1] (the default state for
\* the first line), also for the lines after the stability point.
StateVectorConsistent ==
  (analyzed /\ ~fault) =>
    \A i \in 1..getLineCount(doc) :
      /\ i <= Len(S)
      /\ S[i] = analyzeLine(Grammars[gid], getLine(doc, i - 1).text,
                            TextLineInfo(i - 1, IF i = 1 THEN kDefaultStateId ELSE S[i - 1],
                                         0)).end_state

\* an edit stopped at a stability point and left a line with a non-default
\* end state untouched
StateVectorWitness ==
  /\ analyzed /\ ~fault
  /\ last.op = "incremental" /\ last.tail
  /\ S[Len(S)] # kDefaultStateId

\* C3: after analyze() and after every analyzeIncremental call, S,
\* highlight.lines and the document have the same number of lines.
LockstepSizing ==
  (analyzed /\ ~fault) =>
    /\ Len(S) = getLineCount(doc)
    /\ Len(hl) = getLineCount(doc)

\* an edit that removed lines has been applied
LockstepWitness ==
  /\ analyzed /\ ~fault
  /\ last.op = "incremental" /\ last.line_change < 0
  /\ getLineCount(doc) > 1

\* C4: with show_index set, every span's start.index and end.index are the
\* character index of its line plus its column, after analyze() and after
\* every analyzeIncremental call.
IndexConsistent ==
  (analyzed /\ ~fault /\ show_index) =>
    \A i \in 1..Len(hl) : \A k \in 1..Len(hl[i]) :
      /\ hl[i][k].range.start.index = charIndexOfLine(doc, i - 1) + hl[i][k].range.start.column
      /\ hl[i][k].range.end.index = charIndexOfLine(doc, i - 1) + hl[i][k].range.end.column

\* C23: every analyze() call, the second of two in a row included, leaves the
\* state vector and a DocumentHighlight equal to the ones analyze() on a new
\* analyzer over the same text and grammar produces.
AnalyzeDeterministic ==
  (analyzed /\ ~fault /\ last.op = "analyze") =>
    /\ DocumentHighlightEq(hl, FullAnalysis.lines)
    /\ Len(hl) = getLineCount(doc)
    /\ S = FullAnalysis.states

\* analyze() was called twice in a row on a document with spans on two lines
AnalyzeDeterministicWitness ==
  /\ analyzed /\ ~fault /\ last.op = "analyze" /\ last.again
  /\ Len(hl) > 1 /\ Len(hl[1]) > 0 /\ Len(hl[2]) > 0

-----------------------------------------------------------------------------
(* Properties of the line tokenizer *)

\* C5: no LineHighlight the tokenizer builds holds two consecutive spans with
\* prev.end.column = next.start.column and the same style_id.
MergeClosure ==
  ln.pc # "idle" =>
    \A h \in {ln.f.highlight, ln.result.highlight, ln.emitted} :
      \A k \in 1..(Len(h) - 1) :
        ~(h[k].range.end.column = h[k + 1].range.start.column
          /\ h[k].style_id = h[k + 1].style_id)

\* two matches of the block-comment grammar were merged into one span
MergeWitness ==
  /\ ln.pc = "done" /\ ln.g = 1
  /\ ln.matches = 2
  /\ Len(ln.result.highlight) = 1

\* C6: in every LineHighlight, consecutive spans a, b have
\* a.start.column <= b.start.column and a.end.column <= b.start.column.
MonotoneColumns ==
  ln.pc # "idle" =>
    \A k \in 1..(Len(ln.f.highlight) - 1) :
      LET a == ln.f.highlight[k]
          b == ln.f.highlight[k + 1]
      IN /\ a.range.start.column <= b.range.start.column
         /\ a.range.end.column <= b.range.start.column

\* spans h cover the columns [from, to) with no gap and no overlap
Tiles(h, from, to) ==
  /\ Len(h) > 0
  /\ h[1].range.start.column = from
  /\ h[Len(h)].range.end.column = to
  /\ \A k \in 1..Len(h) : h[k].range.start.column < h[k].range.end.column
  /\ \A k \in 1..(Len(h) - 1) : h[k].range.end.column = h[k + 1].range.start.column

\* the token rule that won match m in the state it was searched in
winningRule(m, state) ==
  getStateRule(Grammars[ln.g], state).token_rules[m.token_rule_idx + 1]

\* C7: the spans emitted for a match whose winning rule has a sub_state_rule
\* cover [match_start, match_start + match_length) with no gap and no overlap.
SubGrammarTiling ==
  (ln.pc # "idle" /\ ln.m.matched /\ ln.m.token_rule_idx >= 0
     /\ Len(winningRule(ln.m, ln.m_state).sub_state_rule) > 0)
    => Tiles(ln.emitted, ln.m.start, ln.m.start + ln.m.length)

StrictlyIncreasing(q) == \A k \in 1..(Len(q) - 1) : q[k] < q[k + 1]

\* C8: analyzeLine terminates: every iteration strictly increases the cursor,
\* which never passes char_count, so after k iterations the cursor is at least
\* k and the loop has ended once k reaches char_count; the iterations number
\* at most char_count plus the matches; the sub-grammar loop strictly
\* advances too.
Progress ==
  ln.pc # "idle" =>
    /\ StrictlyIncreasing(ln.trail)
    /\ StrictlyIncreasing(ln.m.sub_trail)
    /\ ln.iters <= countChars(ln.text) + ln.matches
    /\ ln.iters <= ln.f.current_char_pos
    /\ ln.f.current_char_pos <= countChars(ln.text)

\* a line was tokenized to its end with iterations that matched, iterations
\* that did not, and a sub-grammar loop that went round more than once
ProgressWitness ==
  /\ ln.pc = "done"
  /\ ln.matches > 0 /\ ln.iters > ln.matches
  /\ Len(ln.m.sub_trail) > 2

\* C13: every span emitted for a match (the whole-match span, the capture
\* group spans, the spans of a sub-grammar and its gaps) carries the goto_state
\* of the top-level token rule that won the match, which is -1 when the rule
\* does not change the state.
SpanGotoState ==
  (ln.pc # "idle" /\ ln.m.matched /\ ln.m.token_rule_idx >= 0) =>
    \A k \in 1..Len(ln.emitted) :
      ln.emitted[k].goto_state = winningRule(ln.m, ln.m_state).goto_state

\* C14: for every line, empty or not, if the rule of the state current at
\* the end of the line has line_end_state >= 0, the line's end_state is that
\* line_end_state.
LineEndStateApplied ==
  (ln.pc = "done"
     /\ getStateRule(Grammars[ln.g], ln.f.current_state).line_end_state >= 0)
    => ln.result.end_state
         = getStateRule(Grammars[ln.g], ln.f.current_state).line_end_state

\* the state the loop of analyzeLine is in is absent from the grammar
inUnknownState == ln.pc = "loop" /\ ~containsRule(Grammars[ln.g], ln.f.current_state)

nonEmptyAt(R, text, q) ==
  /\ firstAlternative(R, text, q, 1) > 0
  /\ matchAlternative(R[firstAlternative(R, text, q, 1)].pat, text, q) > 0

\* the characters right of p at which the search of state finds a non-empty
\* match, with no such character between p and them
nextNonEmpty(R, text, p) ==
  {q \in (p + 1)..(Len(text) - 1) :
     /\ nonEmptyAt(R, text, q)
     /\ \A c \in (p + 1)..(q - 1) : ~nonEmptyAt(R, text, c)}

\* C19: an iteration whose search returns a match that ends where it starts
\* emits no span, keeps the state and advances the cursor by one character;
\* the nearest non-empty match right of it is the start of a match once the
\* cursor has passed it.
ZeroWidthRecovered ==
  ln.pc # "idle" =>
    \A r \in ln.rejected :
      /\ r.emitted = 0
      /\ r.next_state = r.state
      /\ r.next_pos = r.pos + 1
      /\ \A q \in nextNonEmpty(getStateRule(Grammars[ln.g], r.state).token_rules,
                                ln.text, r.pos) :
           (ln.pc = "done" \/ ln.f.current_char_pos > q) => q \in ln.starts

\* a line was tokenized to its end with a zero-width match turned down in a
\* state other than the start state and a match emitted right of it
ZeroWidthWitness ==
  /\ ln.pc = "done"
  /\ \E r \in ln.rejected :
       /\ r.state # ln.info.start_state
       /\ \E q \in ln.starts : q > r.pos
       /\ \E k \in 1..Len(ln.result.highlight) :
            ln.result.highlight[k].range.start.column > r.pos

\* C21: every OnigRegion a matchAtPosition call allocates is freed once
\* before the call returns, on every exit path, so no region is live between
\* the iterations of analyzeLine nor when it returns.
RegionsReleased ==
  ln.pc # "idle" =>
    /\ ln.live = <<>>
    /\ liveRegions(ln.regions, 1, <<>>) = <<>>
    /\ Cardinality({k \in 1..Len(ln.regions) : ln.regions[k].op = "new"})
         = Cardinality({k \in 1..Len(ln.regions) : ln.regions[k].op = "free"})

\* a line was tokenized to its end and its last search descended into a
\* sub-grammar two levels deep
RegionsReleasedWitness ==
  /\ ln.pc = "done"
  /\ \E k \in 1..Len(ln.regions) : ln.regions[k] = [op |-> "free", region |-> 2]

\* a span with matched_text and inline_style blanked
compared(span) == [span EXCEPT !.matched_text = <<>>, !.inline_style = ""]

\* C22: two TokenSpans are equal exactly when their range, style_id, state
\* and goto_state are, whatever their matched_text and inline_style; two
\* LineHighlights are equal exactly when they have as many spans and the
\* spans are equal pair by pair in order.
SpanEquality ==
  /\ ob.pc = "spans compared" => (ob.eq <=> compared(ob.a) = compared(ob.b))
  /\ ob.pc = "lines compared" =>
       (ob.eq <=> [k \in 1..Len(ob.x) |-> compared(ob.x[k])]
                    = [k \in 1..Len(ob.y) |-> compared(ob.y[k])])

\* two spans that differ in matched_text and inline_style alone compared equal
SpanEqualityWitness ==
  /\ ob.pc = "spans compared" /\ ob.eq
  /\ ob.a.matched_text # ob.b.matched_text
  /\ ob.a.inline_style # ob.b.inline_style

\* the gap of the last iteration that found a match is covered by a span
gapCovered ==
  \E c \in 0..MaxTextLen, k \in 1..Len(ln.f.highlight) :
     /\ Len(ln.trail) > 1 /\ ln.trail[Len(ln.trail) - 1] <= c /\ c < ln.m.start
     /\ ln.f.highlight[k].range.start.column <= c
     /\ c < ln.f.highlight[k].range.end.column

\* the step is an iteration of the loop of analyzeLine that found a match
matchedIteration == ln.pc = "loop" /\ ln'.pc = "loop" /\ ln'.matches = ln.matches + 1

\* C24: an iteration that finds a match searches in the current state, moves
\* the cursor to match_start + match_length, makes the winning rule's
\* goto_state the current state when it is >= 0 and keeps the state
\* otherwise, emits no span that starts left of
\* match_start and leaves the characters from the old cursor to match_start
\* without a span.
StateTransition ==
  [][matchedIteration =>
       /\ ln'.m_state = ln.f.current_state
       /\ ln'.m.start >= ln.f.current_char_pos /\ ln'.m.length > 0
       /\ ln'.f.current_char_pos = ln'.m.start + ln'.m.length
       /\ ln'.f.current_state
            = IF winningRule(ln'.m, ln.f.current_state).goto_state >= 0
              THEN winningRule(ln'.m, ln.f.current_state).goto_state
              ELSE ln.f.current_state
       /\ \A k \in 1..Len(ln'.emitted) :
            ln'.emitted[k].range.start.column >= ln'.m.start
       /\ ~gapCovered']_vars

\* a match in a state the line did not start in was found right of the
\* cursor, after a match that changed the state
StateTransitionWitness ==
  /\ ln.pc = "loop" /\ ln.matches = 2
  /\ ln.m_state # ln.info.start_state
  /\ ln.trail[Len(ln.trail)] = ln.m.start + ln.m.length
  /\ ln.m.start > ln.trail[Len(ln.trail) - 1]
  /\ ~gapCovered

\* C25: every span appended for a match carries as state the state the match
\* was searched in, the state before the match's goto_state applies; the
\* first span of a line carries the line's start state.
SpanStateAnnotation ==
  [][matchedIteration =>
       /\ \A k \in 1..Len(ln'.emitted) : ln'.emitted[k].state = ln.f.current_state
       /\ \A k \in (Len(ln.f.highlight) + 1)..Len(ln'.f.highlight) :
            ln'.f.highlight[k].state = ln.f.current_state
       /\ Len(ln'.f.highlight) > 0 => ln'.f.highlight[1].state = ln.info.start_state]_vars

\* a line that started in a state other than the default one holds a span
\* of a match that changed the state and a later span of the new state
SpanStateWitness ==
  /\ ln.pc = "done"
  /\ ln.info.start_state # kDefaultStateId
  /\ Len(ln.f.highlight) > 1
  /\ ln.f.highlight[1].goto_state >= 0
  /\ ln.f.highlight[1].goto_state # ln.info.start_state
  /\ ln.f.highlight[2].state = ln.f.highlight[1].goto_state

\* the last iteration of the loop of analyzeLine found the match ln.m
lastMatched ==
  /\ ln.pc # "idle" /\ ln.m.matched /\ Len(ln.trail) > 1
  /\ ln.trail[Len(ln.trail)] = ln.m.start + ln.m.length

\* the region the search of the last iteration returned
lastRegion ==
  onig_search(getStateRule(Grammars[ln.g], ln.m_state), ln.text,
              charPosToBytePos(ln.text, ln.trail[Len(ln.trail) - 1]))

\* group 0 of rule i (numbered from 1) of R has the byte span of the whole match of region
ownsMatch(R, region, i) ==
  /\ region.beg[R[i].group_offset_start] = region.pos
  /\ region.end[R[i].group_offset_start] = region.end[0]

\* match m of region is resolved to the first rule of R that owns the match
resolvedFirst(R, region, m) ==
  /\ m.token_rule_idx >= 0 /\ m.token_rule_idx < Len(R)
  /\ ownsMatch(R, region, m.token_rule_idx + 1)
  /\ \A j \in 1..m.token_rule_idx : ~ownsMatch(R, region, j)
  /\ m.style = R[m.token_rule_idx + 1].group_styles[1]
  /\ m.goto_state = R[m.token_rule_idx + 1].goto_state

\* C26: the winning rule of a non-empty match is the first rule in declared
\* order whose group 0 (absolute group group_offset_start) has the byte span
\* of the whole match; the match takes that rule's group_styles[0] and
\* goto_state.
RuleResolution ==
  lastMatched =>
    resolvedFirst(getStateRule(Grammars[ln.g], ln.m_state).token_rules, lastRegion, ln.m)

\* a rule other than the first, with capture groups of its own, won a match
RuleResolutionWitness ==
  /\ lastMatched
  /\ ln.m.token_rule_idx >= 1
  /\ Len(ln.m.capture_groups) > 0

\* the capture groups of token_rule, in group-number order, that matched
\* inside the whole match of region
matchedGroups(token_rule, region) ==
  SelectSeq([g \in 1..token_rule.group_count |-> g],
            LAMBDA g : /\ region.beg[g + token_rule.group_offset_start] >= 0
                       /\ region.beg[g + token_rule.group_offset_start] >= region.pos
                       /\ region.end[g + token_rule.group_offset_start] <= region.end[0])

\* span covers the characters group g of token_rule matched in region, with
\* the group's style, the rule's goto_state and the state of the search
coversGroup(span, token_rule, region, g) ==
  /\ span.range.start
       = Position(ln.info.line,
                  bytePosToCharPos(ln.text, region.beg[g + token_rule.group_offset_start]),
                  ln.info.start_char_offset
                    + bytePosToCharPos(ln.text, region.beg[g + token_rule.group_offset_start]))
  /\ span.range.end
       = Position(ln.info.line,
                  bytePosToCharPos(ln.text, region.end[g + token_rule.group_offset_start]),
                  ln.info.start_char_offset
                    + bytePosToCharPos(ln.text, region.end[g + token_rule.group_offset_start]))
  /\ span.style_id = token_rule.group_styles[g + 1]
  /\ span.goto_state = token_rule.goto_state
  /\ span.state = ln.m_state

\* spans hold one span per group of groups, in order
onePerGroup(spans, groups, token_rule, region) ==
  /\ Len(spans) = Len(groups)
  /\ \A k \in 1..Len(groups) : coversGroup(spans[k], token_rule, region, groups[k])

\* C27: for a match without sub-spans whose winning rule has a capture group
\* that matched inside the whole match, the tokenizer hands on one span per
\* such group, in group-number order, covering the characters the group
\* matched, with the group's style, the match's goto_state and the current
\* state, and no span for the whole match or for an unmatched group.
CaptureGroupEmission ==
  (lastMatched /\ Len(ln.m.sub_spans) = 0
     /\ Len(matchedGroups(winningRule(ln.m, ln.m_state), lastRegion)) > 0)
    => onePerGroup(spansOfMatch(ln.info, ln.m_state, ln.m),
                   matchedGroups(winningRule(ln.m, ln.m_state), lastRegion),
                   winningRule(ln.m, ln.m_state), lastRegion)

\* a rule with one matched and one unmatched capture group won a match that
\* starts right of column 0
CaptureGroupWitness ==
  /\ lastMatched /\ Len(ln.m.sub_spans) = 0
  /\ ln.m.start > 0
  /\ winningRule(ln.m, ln.m_state).group_count = 2
  /\ Len(matchedGroups(winningRule(ln.m, ln.m_state), lastRegion)) = 1
  /\ Len(ln.f.highlight) > 0

\* the pushed span met the merge condition on the last span of the line
mergeCase ==
  /\ ob.pc = "pushed" /\ Len(ob.spans) > 0
  /\ ob.spans[Len(ob.spans)].range.end.column = ob.span.range.start.column
  /\ ob.spans[Len(ob.spans)].style_id = ob.span.style_id

\* after is before with the end column and index of its range taken from span
onlyEndMoved(before, after, span) ==
  /\ after.range.start = before.range.start
  /\ after.range.end.line = before.range.end.line
  /\ after.range.end.column = span.range.end.column
  /\ after.range.end.index = span.range.end.index
  /\ after.style_id = before.style_id
  /\ after.state = before.state
  /\ after.goto_state = before.goto_state
  /\ after.matched_text = before.matched_text
  /\ after.inline_style = before.inline_style

\* C28: when pushOrMergeSpan merges a span into the last span, only the last
\* span's end column and end index change, to the new span's; its start,
\* style_id, state, goto_state, matched_text and inline_style, the number of
\* spans and the earlier spans stay, whatever the new span's state and
\* goto_state.
MergeFrame ==
  mergeCase =>
    /\ Len(ob.result) = Len(ob.spans)
    /\ \A k \in 1..(Len(ob.spans) - 1) : ob.result[k] = ob.spans[k]
    /\ onlyEndMoved(ob.spans[Len(ob.spans)], ob.result[Len(ob.spans)], ob.span)

\* a span was merged into the second span of a line from which it differs in
\* state, goto_state, matched_text and inline_style
MergeFrameWitness ==
  /\ mergeCase /\ Len(ob.spans) = 2
  /\ ob.span.state # ob.spans[2].state
  /\ ob.span.goto_state # ob.spans[2].goto_state
  /\ ob.span.matched_text # ob.spans[2].matched_text
  /\ ob.span.inline_style # ob.spans[2].inline_style

\* the sub state rule the last match was tokenized again with
subRuleOfLast == winningRule(ln.m, ln.m_state).sub_state_rule[1]

\* the last match has been through the sub-grammar loop
descended ==
  /\ ln.pc # "idle" /\ ln.m.matched /\ ln.m.token_rule_idx >= 0
  /\ Len(winningRule(ln.m, ln.m_state).sub_state_rule) > 0

\* the sub-grammar loop of the last match ended on a search at sub_pos that
\* gave no match, or one that ends where it starts
subSearchUnusable(sub_pos) ==
  /\ Len(ln.m.sub_trail) > 0
  /\ sub_pos = ln.m.sub_trail[Len(ln.m.sub_trail)]
  /\ sub_pos < countChars(ln.m.matched_text)

\* a span of the sub rule that matches at q of the parent match starts at q
subMatchEmitted(R, matched_text, sub_spans, q) ==
  \E k \in 1..Len(sub_spans) :
    /\ sub_spans[k].range.start.column = q
    /\ sub_spans[k].style_id = getGroupStyleId(R[firstAlternative(R, matched_text, q, 1)], 0)

\* C29: inside a sub-grammar descent a search at sub_pos that yields no match
\* or a zero-width match does not end the descent: the nearest non-empty
\* sub-match right of sub_pos in the parent match is emitted with its sub
\* style.
SubTokenizerRecovers ==
  descended =>
    \A p \in 0..(Len(ln.m.matched_text) - 1) :
      subSearchUnusable(p) =>
        \A q \in nextNonEmpty(subRuleOfLast.token_rules, ln.m.matched_text, p) :
          subMatchEmitted(subRuleOfLast.token_rules, ln.m.matched_text, ln.m.sub_spans, q)

\* span covers, in line columns, the characters group g of token_rule matched
\* in region, a search in the text of the last match, with the group's style
coversSubGroup(span, token_rule, region, g) ==
  /\ span.range.start.column
       = ln.m.start + bytePosToCharPos(ln.m.matched_text,
                                       region.beg[g + token_rule.group_offset_start])
  /\ span.range.end.column
       = ln.m.start + bytePosToCharPos(ln.m.matched_text,
                                       region.end[g + token_rule.group_offset_start])
  /\ span.style_id = token_rule.group_styles[g + 1]

\* spans holds one span for each group of token_rule that matched in region
oneSpanPerSubGroup(spans, token_rule, region) ==
  \A k \in 1..Len(matchedGroups(token_rule, region)) :
    Cardinality({j \in 1..Len(spans) :
                   coversSubGroup(spans[j], token_rule, region,
                                  matchedGroups(token_rule, region)[k])}) = 1

\* sub_res, the sub-match of region, has capture groups and no sub-spans
subMatchWithGroups(sub_res) ==
  /\ sub_res.matched /\ sub_res.token_rule_idx >= 0
  /\ Len(sub_res.sub_spans) = 0 /\ Len(sub_res.capture_groups) > 0

\* the capture groups of sub_res are placed in spans
subGroupsPlaced(sub_res, region, spans) ==
  subMatchWithGroups(sub_res) =>
    oneSpanPerSubGroup(spans, subRuleOfLast.token_rules[sub_res.token_rule_idx + 1], region)

\* C30: a sub-match at offset p of the parent match that has capture groups
\* and no sub-spans yields, for each matched group, one span whose line
\* columns are those of the characters the group matched, for every p.
SubGroupColumns ==
  descended =>
    \A i \in 1..(Len(ln.m.sub_trail) - 1) :
      subGroupsPlaced(matchAtPosition(ln.m.matched_text, ln.m.sub_trail[i], subRuleOfLast),
                      onig_search(subRuleOfLast, ln.m.matched_text,
                                  charPosToBytePos(ln.m.matched_text, ln.m.sub_trail[i])),
                      spansOfMatch(ln.info, ln.m_state, ln.m))

\* C31: every span of a line lies inside the line: 0 <= start.column <=
\* end.column <= the number of characters of the line's text, for every
\* grammar, sub-grammars and capture groups included.
SpanBounds ==
  ln.pc # "idle" =>
    \A k \in 1..Len(ln.f.highlight) :
      /\ 0 <= ln.f.highlight[k].range.start.column
      /\ ln.f.highlight[k].range.start.column <= ln.f.highlight[k].range.end.column
      /\ ln.f.highlight[k].range.end.column <= countChars(ln.text)

-----------------------------------------------------------------------------
(* Properties of the text analyzer *)

newlines(text) == Cardinality({i \in 1..Len(text) : text[i] = "\n"})

\* C9: analyzing the empty text yields exactly one LineHighlight, with no spans.
EmptyTextOneLine ==
  (tx.pc = "done" /\ Len(tx.text) = 0) =>
    /\ Len(tx.lines) = 1
    /\ Len(tx.lines[1]) = 0

\* C10: for a non-empty text analyzeText returns one LineHighlight more than
\* the text has "\n"; the segment after the last "\n" is tokenized even when
\* empty, so a text ending in "\n" gets a last LineHighlight with no spans.
TextLineCount ==
  (tx.pc = "done" /\ Len(tx.text) > 0) =>
    /\ Len(tx.lines) = newlines(tx.text) + 1
    /\ tx.text[Len(tx.text)] = "\n" => Len(tx.lines[Len(tx.lines)]) = 0

\* a text with a span on its first line and a closing "\n" was analyzed
TextLineCountWitness ==
  /\ tx.pc = "done"
  /\ Len(tx.text) > 1 /\ tx.text[Len(tx.text)] = "\n"
  /\ Len(tx.lines) = 2
  /\ Len(tx.lines[1]) = 1 /\ Len(tx.lines[2]) = 0

\* the number of characters of text before its line i (numbered from 0),
\* every "\r" and "\n" counted
charsBeforeLine(text, i) ==
  IF i = 0 THEN 0
  ELSE CHOOSE p \in 1..Len(text) :
         text[p] = "\n" /\ Cardinality({q \in 1..p : text[q] = "\n"}) = i

\* C32: in analyzeText the start_char_offset of line i is the number of
\* characters of the original text before line i, a stripped "\r" and the
\* "\n" counted, so the index of a span's start and end is that number plus
\* the column.
TextOffsets ==
  tx.pc = "done" =>
    \A i \in 1..Len(tx.lines) : \A k \in 1..Len(tx.lines[i]) :
      /\ tx.lines[i][k].range.start.index
           = charsBeforeLine(tx.text, i - 1) + tx.lines[i][k].range.start.column
      /\ tx.lines[i][k].range.end.index
           = charsBeforeLine(tx.text, i - 1) + tx.lines[i][k].range.end.column

\* a text whose first line ends in "\r\n" was analyzed and its second line
\* has a span
TextOffsetsWitness ==
  /\ tx.pc = "done" /\ Len(tx.lines) >= 2 /\ Len(tx.lines[2]) > 0
  /\ charsBeforeLine(tx.text, 1) >= 2
  /\ tx.text[charsBeforeLine(tx.text, 1) - 1] = "\r"

\* the analysis of line (numbered from 0) of document d started in state seed
lineFrom(d, line, seed) ==
  analyzeLine(Grammars[gid], getLine(d, line).text,
              TextLineInfo(line, seed, charIndexOfLine(d, line)))

\* C33: analyzeIncremental(range, new_text) leaves the state and the
\* highlight of every line before range.start.line as they were, and
\* tokenizes line range.start.line again from the end state of the line
\* before it, or from the default state when there is none.
PrefixFrame ==
  [][(ob.pc = "idle" /\ ob'.pc = "done") =>
       /\ \A i \in 1..ob'.range.start.line : S'[i] = S[i] /\ hl'[i] = hl[i]
       /\ S'[ob'.range.start.line + 1]
            = lineFrom(doc', ob'.range.start.line,
                       IF ob'.range.start.line > 0 THEN S[ob'.range.start.line]
                       ELSE kDefaultStateId).end_state
       /\ hl'[ob'.range.start.line + 1]
            = lineFrom(doc', ob'.range.start.line,
                       IF ob'.range.start.line > 0 THEN S[ob'.range.start.line]
                       ELSE kDefaultStateId).highlight]_vars

\* an edit that changed the line count started on a line after one that ends
\* in another state than the default and has spans
PrefixFrameWitness ==
  /\ ob.pc = "done" /\ ob.range.start.line > 0 /\ ob.line_change # 0
  /\ S[ob.range.start.line] # kDefaultStateId
  /\ Len(hl[ob.range.start.line]) > 0
  /\ Len(hl[ob.range.start.line + 1]) > 0

\* C35: after analyze() and any sequence of analyzeIncremental calls, edits
\* that insert or delete lines and stop at a stability point included, every
\* span kept for line i (numbered from 0) has start.line and end.line i.
SpanLineNumbers ==
  (analyzed /\ ~fault) =>
    \A i \in 1..Len(hl) : \A k \in 1..Len(hl[i]) :
      /\ hl[i][k].range.start.line = i - 1
      /\ hl[i][k].range.end.line = i - 1

\* C36: in every order of analyze() and analyzeIncremental calls, an
\* analyzeIncremental as the first call included, analyzeIncremental makes no
\* access outside S or the highlight's lines and leaves one LineHighlight per
\* document line.
CallOrderSafety ==
  /\ ~fault
  /\ last.op = "incremental" => Len(hl) = getLineCount(doc)

-----------------------------------------------------------------------------
(* Properties of the calls of one analyzer *)

\* C34: on an analyzer constructed with a null syntax rule, analyze() and
\* both analyzeIncremental overloads return null and leave the document, S
\* and the highlight as they were.
NullGrammar ==
  [][gid = nullptr => (ob'.ret = nullptr /\ doc' = doc /\ S' = S /\ hl' = hl)]_vars

\* analyzeIncremental by character indices returned on an analyzer with a
\* null rule whose document has more than one line
NullGrammarWitness ==
  /\ gid = nullptr /\ ob.pc = "returned" /\ ob.op = "index"
  /\ ob.ret = nullptr /\ getLineCount(doc) > 1

\* the lines seen through pointer ptr to a DocumentHighlight made with lines made
seenThrough(ptr, made) == IF ptr = m_highlight_ THEN hl ELSE made

\* C38: every call of analyze() and analyzeIncremental on one analyzer returns
\* the same DocumentHighlight object, changed in place: the result of the
\* first call shows the content of the most recent call.
ResultAliasing ==
  (ob.pc = "returned" /\ ob.ret # nullptr /\ ob.first # nullptr) =>
    /\ ob.ret = ob.first
    /\ seenThrough(ob.first, ob.first_lines) = seenThrough(ob.ret, ob.made)
    /\ seenThrough(ob.first, ob.first_lines) = hl

\* an analyzeIncremental call returned after the lines have changed from
\* what the first call left
ResultAliasingWitness ==
  /\ ob.pc = "returned" /\ ob.op = "range"
  /\ ob.ret # nullptr /\ ob.ret = ob.first
  /\ hl # ob.first_lines

-----------------------------------------------------------------------------
(* Properties of one observed analyzeIncremental call *)

\* the observed edit replaced text inside one line and kept the line count
singleLineEdit ==
  /\ ob.pc = "done"
  /\ ob.line_change = 0
  /\ ob.range.start.line = ob.range.end.line
  /\ (ob.range.end.column > ob.range.start.column \/ Len(ob.new_text) > 0)

\* line (numbered from 0) has the end state and the highlight it had before the edit
lineKept(line) ==
  /\ S[line + 1] = ob.old_states[line + 1]
  /\ LineHighlightEq(hl[line + 1], ob.old_lines[line + 1])

\* C11: when an edit replaces text inside one line k, keeps the line count and
\* leaves line k's end state and highlight as they were, the loop stops right
\* after line k: line k + 1 is not tokenized again.
StabilityStopAfterEditedLine ==
  (singleLineEdit /\ lineKept(ob.range.start.line)
     /\ ob.range.start.line + 1 < getLineCount(doc))
    => ob.stop_line = ob.range.start.line + 1

\* the last line of the patched document the edit touched
changeEndLine == ob.range.end.line + ob.line_change

\* C20: the loop of analyzeIncremental stops before the end of the document
\* only after a line n with n > range.end.line + line_change whose recomputed
\* end state and LineHighlight equal the ones stored before; hence the lines
\* from change_start through min(change_end + 1, last line) are tokenized
\* again on every edit.
StabilityCondition ==
  ob.pc = "done" =>
    /\ ob.stable => /\ ob.stop_line - 1 > changeEndLine
                    /\ lineKept(ob.stop_line - 1)
    /\ ~ob.stable => ob.stop_line = getLineCount(doc)
    /\ ob.stop_line > ob.range.start.line
    /\ ob.stop_line - 1 >= IF changeEndLine + 1 < getLineCount(doc) - 1
                           THEN changeEndLine + 1 ELSE getLineCount(doc) - 1

\* an edit that put text in stopped at a stability point, on a line with
\* spans, with a line left
StabilityConditionWitness ==
  /\ ob.pc = "done" /\ ob.stable
  /\ Len(ob.new_text) > 0
  /\ ob.stop_line < getLineCount(doc)
  /\ Len(hl[ob.stop_line]) > 0

-----------------------------------------------------------------------------
(* Properties of the HighlightEngine *)

\* the grammar loadDocument finds for uri in the registry as it is now
grammarOf(uri) == getSyntaxRuleByExtension(eng.m_syntax_rules, getExtension(uri))

\* C15: a loadDocument of a uri that an earlier loadDocument returned an
\* analyzer for, with no removeDocument of it in between, returns that same
\* analyzer; with no such analyzer (never loaded, or removed since) and a
\* grammar for the uri's extension it constructs a new instance.
AnalyzerCache ==
  (eng.pc = "run" /\ eng.ret.op = "load") =>
    /\ eng.ret.prior # nullptr => eng.ret.analyzer = eng.ret.prior
    /\ (eng.ret.prior = nullptr /\ grammarOf(eng.ret.uri) # nullptr)
         => eng.ret.analyzer > eng.ret.made_before

\* a uri was loaded, removed and loaded again, and then loaded once more
AnalyzerCacheWitness ==
  /\ eng.pc = "run" /\ eng.ret.op = "load"
  /\ eng.ret.dropped
  /\ eng.ret.prior # nullptr /\ eng.ret.analyzer = eng.ret.prior
  /\ eng.ret.analyzer > 1

\* C16: loadDocument of a uri whose extension has no compiled grammar returns
\* nullptr and leaves the uri out of the map, so that it returns an analyzer
\* once a matching grammar is compiled; createAnalyzerByName and
\* createAnalyzerByExtension return nullptr when no grammar matches.
GrammarMissing ==
  eng.pc = "run" =>
    /\ (eng.ret.op = "load" /\ grammarOf(eng.ret.uri) = nullptr /\ eng.ret.prior = nullptr)
         => (eng.ret.analyzer = nullptr /\ eng.ret.uri \notin DOMAIN eng.m_analyzer_map)
    /\ (eng.ret.op = "load" /\ grammarOf(eng.ret.uri) # nullptr)
         => eng.ret.analyzer # nullptr
    /\ (eng.ret.op = "byName"
          /\ \A k \in 1..Len(eng.m_syntax_rules) : eng.m_syntax_rules[k].name # eng.ret.name)
         => eng.ret.analyzer = nullptr
    /\ (eng.ret.op = "byExtension"
          /\ getSyntaxRuleByExtension(eng.m_syntax_rules, eng.ret.extension) = nullptr)
         => eng.ret.analyzer = nullptr

\* a uri that loadDocument had returned nullptr for was loaded with success
GrammarMissingWitness ==
  /\ eng.pc = "run" /\ eng.ret.op = "load"
  /\ eng.ret.missed
  /\ eng.ret.analyzer # nullptr

\* C17: for a non-empty extension e without a leading ".",
\* getSyntaxRuleByExtension(e) and getSyntaxRuleByExtension("." + e) return
\* the same; the empty extension returns nullptr.
ExtensionNormalized ==
  eng.pc = "run" =>
    /\ getSyntaxRuleByExtension(eng.m_syntax_rules, <<>>) = nullptr
    /\ \A e \in Extensions :
         (Len(e) > 0 /\ e[1] # ".")
           => getSyntaxRuleByExtension(eng.m_syntax_rules, e)
                = getSyntaxRuleByExtension(eng.m_syntax_rules, <<".">> \o e)

\* a lookup by an extension without its "." found a grammar
ExtensionNormalizedWitness ==
  /\ eng.pc = "run" /\ eng.ret.op = "byExtension"
  /\ eng.ret.extension = <<"a">>
  /\ eng.ret.analyzer # nullptr

\* C37: a loadDocument of a second Document object with the uri of a loaded
\* one, with no removeDocument in between, returns the analyzer whose
\* getDocument() is the first Document object and whose grammar is the one
\* resolved at the first load, whatever was compiled since.
CachedBinding ==
  (eng.pc = "run" /\ eng.ret.op = "loadOf" /\ eng.ret.hit) =>
    /\ eng.ret.analyzer # nullptr
    /\ getDocument(eng.bound, eng.ret.analyzer) = eng.ret.origin.document
    /\ eng.bound[eng.ret.analyzer].m_rule_ = eng.ret.origin.rule

\* a second Document object was loaded for a uri whose extension resolves to
\* another grammar than the one the cached analyzer was made with
CachedBindingWitness ==
  /\ eng.pc = "run" /\ eng.ret.op = "loadOf" /\ eng.ret.hit
  /\ eng.ret.document # eng.ret.origin.document
  /\ grammarOf(eng.ret.uri) # eng.ret.origin.rule
  /\ grammarOf(eng.ret.uri) # nullptr

\* C39: a tc_guarded_* wrapper that returns 0 has called the function
\* pointer once with the arguments it was given and stored the callee's return
\* value through the out pointer, on every platform; a wrapper that returns
\* another value was left by a structured exception of the callee and has not
\* written the out value.
FfiCallThrough ==
  ob.pc = "returned" =>
    /\ ob.ret = 0 => (ob.calls = 1 /\ ob.passed = ob.args /\ ob.out = ob.value)
    /\ ob.ret # 0 => (ob.raises /\ ob.out = ob.out_before)

====
